---- MODULE Spec2Model ----
(***************************************************************************)
(* A model of the subtitle translation scripts of srt_transfer:            *)
(*   - translate_srt.py, third script (lines 275..602): compress_line,     *)
(*     the global token bucket, baidu_translate, batch_subtitles,          *)
(*     translate_line_by_line, translate_in_batches, main;                 *)
(*   - translate_srt_baidu.py: SRTTranslator.split_text, baidu_translate,  *)
(*     parallel_translate, translate_srt_file and run;                     *)
(*   - translate_srt.py, first script: the DeepL SRTTranslator;            *)
(*   - translate_srt.py, second script (lines 163..272): the first baidu   *)
(*     SRTTranslator, split_text, baidu_translate, translate_srt_file.     *)
(* Text is a sequence of one-character strings, so that split, join and    *)
(* len are computed the way the Python code computes them.                 *)
(***************************************************************************)
EXTENDS Naturals, Integers, Sequences, FiniteSets, TLC

(***************************************************************************)
(* Bounds of the model.                                                    *)
(***************************************************************************)
\* longest token list from which an input line of compress_line is built
MaxTokens == 6
\* longest raw character sequence given to compress_line
MaxRawLen == 5
\* most units in an input list of batch_subtitles
MaxUnits == 3
\* longest unit in an input list of batch_subtitles
MaxUnitLen == 2
\* largest limit given to batch_subtitles
MaxLimit == 6
\* most lines in the file translated by one run
MaxSubs == 3
\* rate_semaphore has no upper bound; replenish_tokens of the model begins a
\* round of releases only while the permits stay within this number
TokenCap == 20
\* the small limit given to translate_in_batches, beside its default
SmallLimit == 3
\* the tokens and the attempts counted per call; the counters stay at this value
MaxCount == 12
\* the characters of a text given to split_text, and its max_bytes
MaxTextLen == 4
MaxBytes == 6
\* the files given to SRTTranslator.run
MaxFiles == 2
\* the subtitles of a file given to SRTTranslator.run
MaxBlocks == 3

(***************************************************************************)
(* Text helpers: Python's str.split(), str.split(sep), sep.join(list).     *)
(***************************************************************************)
\* the characters str.split() with no argument and str.strip() treat as
\* whitespace: those for which str.isspace() holds.  The characters that have
\* no escape are written by code point
Whitespace ==
    {" ", "\t", "\n", "\r", "\f", "U+000B", "U+001C", "U+001D", "U+001E", "U+001F",
     "U+0085", "U+00A0", "U+1680", "U+2000", "U+2001", "U+2002", "U+2003",
     "U+2004", "U+2005", "U+2006", "U+2007", "U+2008", "U+2009", "U+200A",
     "U+2028", "U+2029", "U+202F", "U+205F", "U+3000"}

SeqsUpTo(S, n) == UNION {[1..k -> S] : k \in 0..n}

Last(s) == s[Len(s)]

Min2(a, b) == IF a <= b THEN a ELSE b

RECURSIVE SplitFrom(_, _, _, _)
SplitFrom(s, k, cur, acc) ==
    IF k > Len(s)
    THEN IF cur = <<>> THEN acc ELSE Append(acc, cur)
    ELSE IF s[k] \in Whitespace
         THEN SplitFrom(s, k + 1, <<>>, IF cur = <<>> THEN acc ELSE Append(acc, cur))
         ELSE SplitFrom(s, k + 1, Append(cur, s[k]), acc)

\* line.split(): the maximal runs of non-whitespace characters
split(s) == SplitFrom(s, 1, <<>>, <<>>)

RECURSIVE join(_, _)
\* sep.join(list)
join(sep, list) ==
    IF list = <<>> THEN <<>>
    ELSE IF Len(list) = 1 THEN list[1]
    ELSE list[1] \o sep \o join(sep, Tail(list))

RECURSIVE SplitOnFrom(_, _, _, _)
\* the pieces of s from position k on: the text up to the next occurrence of
\* sep, then the pieces after that occurrence
SplitOnFrom(s, sep, k, acc) ==
    LET hits == {j \in k..(Len(s) - Len(sep) + 1) :
                    SubSeq(s, j, j + Len(sep) - 1) = sep}
    IN  IF hits = {} THEN Append(acc, SubSeq(s, k, Len(s)))
        ELSE LET j == CHOOSE j \in hits : \A m \in hits : j <= m
             IN  SplitOnFrom(s, sep, j + Len(sep), Append(acc, SubSeq(s, k, j - 1)))

\* s.split(sep) for a non-empty separator: always at least one piece
splitOn(s, sep) == SplitOnFrom(s, sep, 1, <<>>)

\* s.strip(): s without its leading and trailing whitespace
strip(s) ==
    LET keep == {k \in 1..Len(s) : s[k] \notin Whitespace}
    IN  IF keep = {} THEN <<>>
        ELSE SubSeq(s, CHOOSE k \in keep : \A m \in keep : k <= m,
                       CHOOSE k \in keep : \A m \in keep : m <= k)

(***************************************************************************)
(* split_text (translate_srt_baidu.py 67..89).  A text is a sequence of     *)
(* characters; the characters outside ASCII are written by code point.     *)
(***************************************************************************)
\* the characters of the model that UTF-8 encodes in 2, 3 and 4 bytes; every
\* other character takes 1 byte
Wide2 == {"U+00E9", "U+0085", "U+00A0"}
Wide3 ==
    {"U+4E2D", "U+1680", "U+2000", "U+2001", "U+2002", "U+2003", "U+2004",
     "U+2005", "U+2006", "U+2007", "U+2008", "U+2009", "U+200A", "U+2028",
     "U+2029", "U+202F", "U+205F", "U+3000"}
Wide4 == {"U+1D11E"}

\* len(text.encode("utf-8"))
Utf8Len(text) ==
    Len(text) + Cardinality({k \in 1..Len(text) : text[k] \in Wide2})
              + 2 * Cardinality({k \in 1..Len(text) : text[k] \in Wide3})
              + 3 * Cardinality({k \in 1..Len(text) : text[k] \in Wide4})

\* the inner loop of split_text, mutated: the test looks at text[current:end]
PieceEndLate(text, max_bytes, current) ==
    LET n == Len(text)
        stops == {end \in current..n :
                     ~(end < n /\ Utf8Len(SubSeq(text, current + 1, end)) <= max_bytes)}
    IN  CHOOSE end \in stops : \A m \in stops : end <= m

\* the inner loop of split_text: end goes up from current and stops at the
\* first value that is n or for which text[current:end+1] has more than
\* max_bytes bytes
PieceEnd(text, max_bytes, current) ==
    LET n == Len(text)
        stops == {end \in current..n :
                     ~(end < n /\ Utf8Len(SubSeq(text, current + 1, end + 1)) <= max_bytes)}
    IN  CHOOSE end \in stops : \A m \in stops : end <= m

RECURSIVE SplitTextFrom(_, _, _, _)
\* the outer loop of split_text; a piece has at least one character
SplitTextFrom(text, max_bytes, current, parts) ==
    IF current >= Len(text) THEN parts
    ELSE LET found == PieceEnd(text, max_bytes, current)
             end == IF found = current THEN current + 1 ELSE found
         IN  SplitTextFrom(text, max_bytes, end,
                           Append(parts, SubSeq(text, current + 1, end)))

split_text(text, max_bytes) == SplitTextFrom(text, max_bytes, 0, <<>>)

\* what the model records for a call of split_text that never returns
Looping == <<<<"looping">>>>

RECURSIVE SplitTextV1From(_, _, _, _)
\* the outer loop of the first SRTTranslator.split_text (translate_srt.py
\* 196..205): a piece may be empty, and then current stays where it is and
\* the loop appends "" for ever
SplitTextV1From(text, max_bytes, current, parts) ==
    IF current >= Len(text) THEN parts
    ELSE LET end == PieceEnd(text, max_bytes, current)
         IN  IF end = current THEN Looping
             ELSE SplitTextV1From(text, max_bytes, end,
                                  Append(parts, SubSeq(text, current + 1, end)))

split_text_v1(text, max_bytes) == SplitTextV1From(text, max_bytes, 0, <<>>)

(***************************************************************************)
(* compress_line (translate_srt.py 364..385).                              *)
(***************************************************************************)
\* the token appended after three kept repeats
Ellipsis == <<".", ".", ".">>

\* the repeats of a run that are kept
KeepRepeats == 3

RECURSIVE RunCount(_, _, _)
\* the inner while: count grows while words[i + count] == words[i]
RunCount(words, i, count) ==
    IF i + count <= Len(words) /\ words[i + count] = words[i]
    THEN RunCount(words, i, count + 1)
    ELSE count

\* the mutated run test: a run of two is compressed as well
EmitRunFromTwo(words, i, count) ==
    IF count >= KeepRepeats - 1
    THEN SubSeq(words, i, i + Min2(count, KeepRepeats) - 1) \o <<Ellipsis>>
    ELSE SubSeq(words, i, i + count - 1)

\* the mutated run test: a run is compressed only when longer than three
EmitRunOffByOne(words, i, count) ==
    IF count > KeepRepeats
    THEN SubSeq(words, i, i + KeepRepeats - 1) \o <<Ellipsis>>
    ELSE SubSeq(words, i, i + count - 1)

\* what one iteration of the outer while appends to new_words
EmitRun(words, i, count) ==
    IF count >= KeepRepeats
    THEN SubSeq(words, i, i + KeepRepeats - 1) \o <<Ellipsis>>
    ELSE SubSeq(words, i, i + count - 1)

RECURSIVE CompressLoop(_, _, _)
\* the outer while over the runs of words
CompressLoop(words, i, new_words) ==
    IF i > Len(words) THEN new_words
    ELSE LET count == RunCount(words, i, 1)
         IN  CompressLoop(words, i + count, new_words \o EmitRun(words, i, count))

compress_line(line) ==
    LET words == split(line)
    IN  IF words = <<>> THEN line
        ELSE join(<<" ">>, CompressLoop(words, 1, <<>>))

(***************************************************************************)
(* batch_subtitles (translate_srt.py 472..496).                            *)
(***************************************************************************)
\* the mutated overflow test: an exact fit closes the batch
OverflowsAtFit(current_len, delim_len, s_len, lim) ==
    current_len + delim_len + s_len >= lim

\* the mutated overflow test: the delimiter is not counted
OverflowsNoDelim(current_len, delim_len, s_len, lim) ==
    current_len + s_len > lim

\* the test that closes the current batch
Overflows(current_len, delim_len, s_len, lim) ==
    current_len + delim_len + s_len > lim

RECURSIVE BatchLoop(_, _, _, _, _, _, _)
\* the for loop over subtitles, then the trailing append of a non-empty batch
BatchLoop(subs, k, bs, current_batch, current_len, lim, delim_len) ==
    IF k > Len(subs)
    THEN IF current_batch # <<>> THEN Append(bs, current_batch) ELSE bs
    ELSE LET s == subs[k]
             s_len == Len(s)
         IN  IF current_batch # <<>>
             THEN IF Overflows(current_len, delim_len, s_len, lim)
                  THEN BatchLoop(subs, k + 1, Append(bs, current_batch),
                                 <<s>>, s_len, lim, delim_len)
                  ELSE BatchLoop(subs, k + 1, bs, Append(current_batch, s),
                                 current_len + delim_len + s_len, lim, delim_len)
             ELSE BatchLoop(subs, k + 1, bs, Append(current_batch, s),
                            s_len, lim, delim_len)

batch_subtitles(subs, lim, delimiter) ==
    BatchLoop(subs, 1, <<>>, <<>>, 0, lim, Len(delimiter))


(***************************************************************************)
(* The state.                                                              *)
(***************************************************************************)
VARIABLES
    prog,        \* what runs: "compress", "batcher", "batch", "line", "parallel",
                 \* "v1", "deepl", "split"
    c_hist,      \* compress_line: the input line and the outputs of successive calls
    b_in,        \* batch_subtitles: the arguments [subtitles, limit, delimiter]
    b_out,       \* batch_subtitles: <<the returned batches>>, or <<>> before the call
    subtitles,   \* the lines read by main / the texts given to parallel_translate
    limit,       \* translate_in_batches: its limit argument
    provider,    \* the outcomes the translation provider may produce in this run
    tokens,      \* rate_semaphore: the permits available
    burst,       \* first attempts that acquired since replenish_tokens last woke
    refill,      \* replenish_tokens: the release() calls left in its for loop
    mainPc,      \* where the main thread is
    client,      \* per thread: its call of baidu_translate
    batches,     \* translate_in_batches: the batches
    processed,   \* translate_in_batches: the units handled so far
    results,     \* the result list
    warnings,    \* the mismatch warnings printed so far
    log,         \* per finished batch: [size, reply, before]
    cache,       \* SRTTranslator.cache
    raw,         \* the lines of the file main reads / the contents of the blocks
    output,      \* what has been written to the output file, <<>> before
    files,       \* SRTTranslator.run: file_list, per file [valid, readable, contents]
    fallback_batch_size,  \* SRTTranslator.fallback_batch_size
    fpos,        \* run: the position of the for loop in file_list
    fpc,         \* where run / translate_srt_file is
    contents,    \* translate_srt_file: the content of every subtitle
    chunk,       \* translate_srt_file: i of the fallback loop
    requests,    \* the calls of translate_texts: [file, lo, hi, reply]
    invoked,     \* the files translate_srt_file has been called on, in order
    report,      \* per file of file_list: "written", "failed" or "skipped"
    s_in,        \* split_text: the arguments [text, max_bytes]
    s_out        \* split_text: <<the returned pieces>>, or <<>> before the call

compVars == <<c_hist>>
batcherVars == <<b_in, b_out>>
splitVars == <<s_in, s_out>>
ioVars == <<raw, output>>
runVars == <<subtitles, limit, provider, tokens, burst, refill, mainPc, client, batches,
             processed, results, warnings, log, cache, ioVars>>
fileVars == <<files, fallback_batch_size, fpos, fpc, contents, chunk, requests,
              invoked, report>>
\* the variables of the other programs, which no step of the scripts changes
otherVars == <<compVars, batcherVars, fileVars, splitVars>>
vars == <<prog, c_hist, b_in, b_out, subtitles, limit, provider, tokens, burst,
          refill, mainPc, client, batches, processed, results, warnings, log, cache, raw,
          output, files, fallback_batch_size, fpos, fpc, contents, chunk, requests,
          invoked, report, s_in, s_out>>


\* self.cache = {}
EmptyCache == [x \in {} |-> <<>>]

\* the values the variables of the running programs hold while none of them runs
RunIdle ==
    /\ subtitles = <<>> /\ limit = 0 /\ provider = {} /\ tokens = 0 /\ burst = 0
    /\ refill = 0
    /\ mainPc = "off" /\ client = <<>> /\ batches = <<>> /\ processed = 0
    /\ results = <<>> /\ warnings = 0 /\ log = <<>> /\ cache = EmptyCache
    /\ raw = <<>> /\ output = <<>>

\* the values the variables of SRTTranslator.run hold while it does not run
FileIdle ==
    /\ files = <<>> /\ fallback_batch_size = 0 /\ fpos = 0 /\ fpc = "off"
    /\ contents = <<>> /\ chunk = 0 /\ requests = <<>> /\ invoked = <<>>
    /\ report = <<>>

\* the values the variables of the split_text runs hold outside them
SplitIdle == s_in = <<>> /\ s_out = <<>>

(***************************************************************************)
(* compress_line applied to a line, and again to its own output.           *)
(***************************************************************************)
\* the tokens from which input lines are built
Tokens == {<<"a">>, <<"b">>, Ellipsis}
\* the separators put between the tokens of an input line
Separators == {<<" ">>, <<" ", " ">>, <<"U+3000">>}
\* what may surround the tokens of an input line
Paddings == {<<>>, <<" ">>, <<"\r">>}
\* the characters of a raw input line
RawChars == {"a", "b", " ", "."}

InputLines ==
    {pad \o join(sep, toks) \o pad :
        toks \in SeqsUpTo(Tokens, MaxTokens), sep \in Separators, pad \in Paddings}
    \cup SeqsUpTo(RawChars, MaxRawLen)

\* the calls of compress_line made on one line
CompressCalls == 2

InitCompress ==
    /\ prog = "compress"
    /\ c_hist \in {<<l>> : l \in InputLines}
    /\ b_in = <<>> /\ b_out = <<>>
    /\ RunIdle /\ FileIdle /\ SplitIdle

\* compress_line is called on the latest text
CompressCall ==
    /\ prog = "compress"
    /\ Len(c_hist) <= CompressCalls
    /\ c_hist' = Append(c_hist, compress_line(Last(c_hist)))
    /\ UNCHANGED <<prog, b_in, b_out, runVars, fileVars, splitVars>>

SpecCompress == InitCompress /\ [][CompressCall]_vars

(***************************************************************************)
(* batch_subtitles applied to a list of units.                             *)
(***************************************************************************)
UnitChars == {"a", "b"}
Delimiters == {<<"\n">>, <<"|", "|">>}

InitBatcher ==
    /\ prog = "batcher"
    /\ b_in \in {[subtitles |-> us, limit |-> lim, delimiter |-> d] :
                    us \in SeqsUpTo(SeqsUpTo(UnitChars, MaxUnitLen), MaxUnits),
                    lim \in 0..MaxLimit, d \in Delimiters}
    /\ b_out = <<>>
    /\ c_hist = <<>>
    /\ RunIdle /\ FileIdle /\ SplitIdle

\* batch_subtitles is called on the arguments
BatcherCall ==
    /\ prog = "batcher"
    /\ b_out = <<>>
    /\ b_out' = <<batch_subtitles(b_in.subtitles, b_in.limit, b_in.delimiter)>>
    /\ UNCHANGED <<prog, b_in, c_hist, runVars, fileVars, splitVars>>

SpecBatcher == InitBatcher /\ [][BatcherCall]_vars


(***************************************************************************)
(* The token bucket and baidu_translate (translate_srt.py 399..467).       *)
(* Delays are counted in tenths of a second.                               *)
(***************************************************************************)
\* threading.Semaphore(10), and the permits one refill releases
Capacity == 10
\* delay = 0.1
InitialDelay == 1
\* max_delay = 1.0
max_delay == 10
\* ThreadPoolExecutor(max_workers=10) of translate_line_by_line
PoolSize == 10
\* the limit translate_in_batches has by default
DefaultLimit == 6000

Delimiter == <<"\n">>

\* an attempt ends in one of these ways: requests.get raises, the status is
\* not 200, the reply holds error_code, the reply holds neither error_code nor
\* trans_result, or the reply holds trans_result
Failures == {"exception", "http", "error_code", "unknown"}
\* trans_result holds one dst per line of the request, one fewer, or one more
Successes == {"echo", "short", "long"}
\* the status is 200 and the body is not JSON: response.json() raises
Raises == {"badjson"}

\* the dst items a reply with trans_result holds for the request text
DstItems(text, outcome) ==
    LET lines == splitOn(text, Delimiter)
    IN  CASE outcome = "echo" -> lines
          [] outcome = "short" -> SubSeq(lines, 1, Len(lines) - 1)
          [] outcome = "long" -> Append(lines, <<"+">>)

\* translation = "\n".join(item["dst"] for item in result["trans_result"])
Translation(text, outcome) == join(Delimiter, DstItems(text, outcome))

\* delay = min(delay + 0.1, max_delay), mutated: the delay doubles
NextDelayDoubling(delay) == Min2(delay * 2, max_delay)

\* delay = min(delay + 0.1, max_delay)
NextDelay(delay) == Min2(delay + 1, max_delay)

\* a thread that is not in baidu_translate; taken and attempt count the tokens
\* the call has acquired and the requests it has made, how is the way it
\* ended; sent counts the requests a call of the first SRTTranslator has
\* made, those of the calls on its pieces included
NoCall ==
    [pc |-> "none", text |-> <<>>, delay |-> 0, taken |-> 0, attempt |-> 0,
     ret |-> <<>>, how |-> "none", parts |-> <<>>, acc |-> <<>>, sent |-> 0]

\* a counter of the model raised by one
Count(n) == Min2(n + 1, MaxCount)

\* continue, mutated: the loop is entered again below the acquire
AfterFailureNoAcquire == "request"

\* continue: the next round of the while loop starts with the acquire
AfterFailure == "acquire"

\* the state of a call at its entry: delay = 0.1, before the first acquire
NewCall(text) ==
    [pc |-> "acquire", text |-> text, delay |-> InitialDelay, taken |-> 0,
     attempt |-> 0, ret |-> <<>>, how |-> "none", parts |-> <<>>, acc |-> <<>>,
     sent |-> 0]

\* the entry of the result list that no worker has written
None == <<"None">>

Threads == 0..MaxSubs
Workers == 1..MaxSubs

(***************************************************************************)
(* The runs: main in batch mode or in line-by-line mode.                   *)
(***************************************************************************)
\* the lines of the translated file, stripped and not empty
LinePool == {<<"a">>, <<"b">>, <<"a", " ", "a", " ", "a", " ", "a">>}

\* a provider that may lose or add lines, and one whose attempts may fail
Lossy == Successes
Flaky == Failures \cup {"echo"}
Reliable == {"echo"}
\* a provider behind a gateway that now and then answers 200 with a page
Garbling == {"echo", "badjson"}

\* the subtitle contents given to parallel_translate, stripped; an empty
\* content is replaced by one space
TextPool == {<<"a">>, <<"a", "\n", "b">>, <<" ">>}

\* the file translated with the provider whose attempts may fail
FlakyLines == <<<<"a", " ", "b">>, <<"b">>>>

\* a file of Capacity + 1 lines, each a batch of its own
BurstLines == [k \in 1..(Capacity + 1) |-> <<"a">>]

\* main: [line.strip() for line in f if line.strip()]
ReadLines(lines) ==
    SelectSeq([k \in 1..Len(lines) |-> strip(lines[k])], LAMBDA l : l # <<>>)

\* translate_srt_file: [sub.content.strip() if sub.content.strip() else " " ...]
original_texts(cs) ==
    [k \in 1..Len(cs) |-> IF strip(cs[k]) # <<>> THEN strip(cs[k]) ELSE <<" ">>]

PureIdle == c_hist = <<>> /\ b_in = <<>> /\ b_out = <<>>

\* a file in SRT layout: a sequence number, a time range, a text, a blank line
SrtLines ==
    << <<"1">>,
       <<"0","0",":","0","0",":","0","1",",","0","0","0"," ","-","-",">"," ",
         "0","0",":","0","0",":","0","2",",","0","0","0">>,
       <<"a", " ">>,
       <<>> >>

\* a text of 1501 characters of 4 bytes each: 6004 bytes
LongText == [k \in 1..1501 |-> "U+1D11E"]
\* a text of 1500 characters of 4 bytes each: 6000 bytes, the first piece of
\* the text above
FullText == [k \in 1..1500 |-> "U+1D11E"]
\* a text of 1451 characters of 4 bytes each: 5804 bytes, more than the first
\* SRTTranslator sends in one request and less than the second does
MidText == [k \in 1..1451 |-> "U+1D11E"]


\* the files translated line by line: those of up to two lines, and files of
\* MaxSubs lines
LineFiles ==
    (SeqsUpTo(LinePool, 2) \ {<<>>})
        \cup {[k \in 1..MaxSubs |-> IF k = 1 THEN <<"a">> ELSE <<"b">>],
              [k \in 1..MaxSubs |->
                  IF k = 1 THEN <<"a", " ", "a", " ", "a", " ", "a">> ELSE <<"a">>]}

\* the runs of the script: the program, the lines of the file, the limit
\* given to translate_in_batches and the provider
Runs ==
    {[prog |-> p, raw |-> subs, limit |-> lim, provider |-> Lossy] :
        p \in {"batch"}, subs \in SeqsUpTo(LinePool, MaxSubs) \ {<<>>},
        lim \in {SmallLimit, DefaultLimit}}
    \cup {[prog |-> "line", raw |-> subs, limit |-> DefaultLimit,
           provider |-> Lossy] : subs \in LineFiles}
    \cup {[prog |-> "batch", raw |-> FlakyLines, limit |-> lim, provider |-> pr] :
        lim \in {SmallLimit, DefaultLimit}, pr \in {Flaky, Garbling}}
    \cup {[prog |-> "line", raw |-> FlakyLines, limit |-> DefaultLimit,
           provider |-> pr] : pr \in {Flaky, Garbling}}
    \cup {[prog |-> "batch", raw |-> BurstLines, limit |-> 1,
           provider |-> Reliable]}
    \cup {[prog |-> p, raw |-> SrtLines, limit |-> DefaultLimit,
           provider |-> Reliable] : p \in {"batch", "line"}}

\* an .srt file with the given contents of its subtitles
SrtFile(cs) == [valid |-> TRUE, readable |-> TRUE, contents |-> cs]

\* the files of the lists given to SRTTranslator.run: .srt files whose texts
\* repeat from one file to the next, a path that is no .srt file, and an
\* .srt file that cannot be read or parsed
SrtPool ==
    {SrtFile(<<<<"a">>>>), SrtFile(<<<<"a">>, <<" ">>>>), SrtFile(<<<<"b">>>>),
     SrtFile(<<>>),
     [valid |-> FALSE, readable |-> TRUE, contents |-> <<>>],
     [valid |-> TRUE, readable |-> FALSE, contents |-> <<>>]}

\* the texts of the files translated alone: those of up to two subtitles, and
\* files of MaxSubs subtitles in which a text repeats
SrtTexts ==
    (SeqsUpTo(TextPool, 2) \ {<<>>})
        \cup {[k \in 1..MaxSubs |-> IF k = 2 THEN <<"a", "\n", "b">> ELSE <<"a">>],
              [k \in 1..MaxSubs |-> IF k = 1 THEN <<" ">> ELSE <<"a">>]}

\* the runs of SRTTranslator.run: the list of files and the provider
ParallelRuns ==
    {[files |-> <<SrtFile(texts)>>, provider |-> pr] :
        texts \in SrtTexts, pr \in {Lossy, Flaky}}
    \cup {[files |-> <<SrtFile(<<<<"a">>, <<>>>>)>>, provider |-> Garbling]}
    \cup {[files |-> <<SrtFile(texts)>>, provider |-> Flaky] :
        texts \in {<<LongText>>, <<FullText, LongText>>, <<MidText>>}}
    \cup {[files |-> fs, provider |-> Reliable] :
        fs \in {<<SrtFile(<<LongText, LongText>>)>>,
                <<SrtFile(<<LongText>>), SrtFile(<<LongText>>)>>}}
    \cup {[files |-> fs, provider |-> Flaky] :
        fs \in SeqsUpTo(SrtPool, MaxFiles) \ {<<>>}}
    \cup {[files |-> <<SrtFile(<<<<"a">>>>), SrtFile(<<<<"a">>, <<" ">>>>),
                       [valid |-> FALSE, readable |-> TRUE, contents |-> <<>>],
                       SrtFile(<<<<" ">>>>)>>,
           provider |-> Reliable]}

\* the state when main has read the file of one of the given runs: a full
\* bucket, nothing translated yet
InitOf(runs) ==
    /\ \E run \in runs :
          /\ prog = run.prog
          /\ raw = run.raw
          /\ subtitles = ReadLines(run.raw)
          /\ limit = run.limit
          /\ provider = run.provider
    /\ tokens = Capacity
    /\ burst = 0
    /\ refill = 0
    /\ mainPc = "select"
    /\ client = [t \in Threads |-> NoCall]
    /\ batches = <<>>
    /\ processed = 0
    /\ results = <<>>
    /\ warnings = 0
    /\ log = <<>>
    /\ cache = EmptyCache
    /\ output = <<>>
    /\ PureIdle /\ FileIdle /\ SplitIdle

\* SRTTranslator.run is about to enter its for loop over file_list: the
\* translator is new, its cache empty
InitParallel ==
    /\ prog = "parallel"
    /\ \E run \in ParallelRuns :
          /\ files = run.files
          /\ provider = run.provider
    /\ fpos = 1
    /\ invoked = <<>>
    /\ report = <<>>
    /\ fallback_batch_size = 0 /\ fpc = "off" /\ contents = <<>> /\ chunk = 0
    /\ requests = <<>>
    /\ raw = <<>>
    /\ subtitles = <<>>
    /\ limit = 0
    /\ tokens = 0
    /\ burst = 0
    /\ refill = 0
    /\ mainPc = "run"
    /\ client = [t \in Threads |-> NoCall]
    /\ batches = <<>>
    /\ processed = 0
    /\ results = <<>>
    /\ warnings = 0
    /\ log = <<>>
    /\ cache = EmptyCache
    /\ output = <<>>
    /\ PureIdle /\ SplitIdle

\* the contents of the subtitles of the files given to the first
\* SRTTranslator: short ones, and one of 5804 bytes
V1Texts ==
    (SeqsUpTo({<<"a">>, <<"a", "\n", "b">>}, 2) \ {<<>>}) \cup {<<MidText>>}

\* main of the first baidu script has built its SRTTranslator and selected
\* the file; translate_srt_file has parsed it
InitV1 ==
    /\ prog = "v1"
    /\ raw \in V1Texts
    /\ subtitles = raw
    /\ provider \in {Lossy, Flaky, Garbling}
    /\ limit = 0
    /\ tokens = 0
    /\ burst = 0
    /\ refill = 0
    /\ mainPc = "select"
    /\ client = [t \in Threads |-> NoCall]
    /\ batches = <<>>
    /\ processed = 0
    /\ results = <<>>
    /\ warnings = 0
    /\ log = <<>>
    /\ cache = EmptyCache
    /\ output = <<>>
    /\ PureIdle /\ FileIdle /\ SplitIdle

\* the characters of the texts given to split_text
SplitChars == {"a", "U+00E9", "U+4E2D", "U+1D11E"}

\* split_text is about to be called on a text with a max_bytes
InitSplit ==
    /\ prog = "split"
    /\ s_in \in {[version |-> v, text |-> t, max_bytes |-> m] :
                    v \in {"v1", "class"},
                    t \in SeqsUpTo(SplitChars, MaxTextLen), m \in 1..MaxBytes}
    /\ s_out = <<>>
    /\ RunIdle /\ PureIdle /\ FileIdle

\* split_text is called on the arguments
SplitCall ==
    /\ prog = "split"
    /\ s_out = <<>>
    /\ s_out' = IF s_in.version = "v1"
                THEN <<split_text_v1(s_in.text, s_in.max_bytes)>>
                ELSE <<split_text(s_in.text, s_in.max_bytes)>>
    /\ UNCHANGED <<prog, compVars, batcherVars, fileVars, runVars, s_in>>

Init == InitOf(Runs) \/ InitParallel \/ InitV1 \/ InitSplit

\* rate_semaphore.release(), mutated: no permit is released
RefilledNot(permits) == permits

\* rate_semaphore.release(): one permit more
Refilled(permits) == permits + 1

\* replenish_tokens: one release() of the for loop.  The first one of a round
\* follows the return of time.sleep(1); the other threads run between two of
\* them.  A round begins only while the permits stay within TokenCap
Replenish ==
    /\ prog \in {"batch", "line"}
    /\ refill = 0 => tokens + Capacity <= TokenCap
    /\ tokens' = Refilled(tokens)
    /\ refill' = IF refill = 0 THEN Capacity - 1 ELSE refill - 1
    /\ burst' = IF refill = 0 THEN 0 ELSE burst
    /\ UNCHANGED <<prog, otherVars, ioVars, subtitles, limit, provider, mainPc,
                   client, batches, processed, results, warnings, log, cache>>

\* baidu_translate: rate_semaphore.acquire() returns
Acquire(t) ==
    /\ prog \in {"batch", "line"}
    /\ client[t].pc = "acquire"
    /\ tokens > 0
    /\ tokens' = tokens - 1
    /\ burst' = IF client[t].delay = InitialDelay
                THEN Min2(burst + 1, Capacity + 1) ELSE burst
    /\ client' = [client EXCEPT ![t].pc = "request", ![t].taken = Count(@)]
    /\ UNCHANGED <<prog, otherVars, ioVars, subtitles, limit, provider, refill, mainPc,
                   batches, processed, results, warnings, log, cache>>

\* baidu_translate: the attempt fails in any of the four ways; each prints,
\* sleeps delay, raises delay and goes round the loop
RespondFail(t) ==
    /\ prog \in {"batch", "line"}
    /\ client[t].pc = "request"
    /\ provider \cap Failures # {}
    /\ client' = [client EXCEPT ![t].pc = AfterFailure,
                                ![t].attempt = Count(@),
                                ![t].delay = NextDelay(client[t].delay)]
    /\ UNCHANGED <<prog, otherVars, ioVars, subtitles, limit, provider, tokens,
                   burst, refill, mainPc, batches, processed, results, warnings, log, cache>>

\* baidu_translate: the reply holds trans_result; the call returns the joined dst
RespondOk(t) ==
    /\ prog \in {"batch", "line"}
    /\ client[t].pc = "request"
    /\ \E outcome \in provider \cap Successes :
          client' = [client EXCEPT ![t].pc = "returned",
                                   ![t].attempt = Count(@),
                                   ![t].ret = Translation(client[t].text, outcome),
                                   ![t].how = outcome]
    /\ UNCHANGED <<prog, otherVars, ioVars, subtitles, limit, provider, tokens,
                   burst, refill, mainPc, batches, processed, results, warnings, log, cache>>

\* baidu_translate: the status is 200 and response.json() raises; nothing in
\* baidu_translate catches it, the call ends with the exception
RespondRaise(t) ==
    /\ prog \in {"batch", "line"}
    /\ client[t].pc = "request"
    /\ provider \cap Raises # {}
    /\ client' = [client EXCEPT ![t].pc = "raised", ![t].attempt = Count(@),
                                ![t].how = "raised"]
    /\ UNCHANGED <<prog, otherVars, ioVars, subtitles, limit, provider,
                   tokens, burst, refill, mainPc, batches, processed, results, warnings,
                   log, cache>>

\* results.extend(translated_lines), mutated: only the first piece is kept
ExtendFirstOnly(res, translated_lines, batch) == Append(res, translated_lines[1])

\* results.extend(translated_lines), mutated: the pieces are cut or padded
\* with "" to the size of the batch
ExtendFitted(res, translated_lines, batch) ==
    res \o [j \in 1..Len(batch) |->
               IF j <= Len(translated_lines) THEN translated_lines[j] ELSE <<>>]

\* results.extend(translated_lines)
ExtendResults(res, translated_lines, batch) == res \o translated_lines

\* [compress_line(line) for line in subtitles]
Compressed(subs) == [k \in 1..Len(subs) |-> compress_line(subs[k])]

\* translate_in_batches up to the first call of baidu_translate
StartBatches ==
    /\ prog = "batch" /\ mainPc = "select"
    /\ batches' = batch_subtitles(Compressed(subtitles), limit, Delimiter)
    /\ results' = <<>>
    /\ processed' = 0
    /\ IF batches' = <<>>
       THEN mainPc' = "write" /\ client' = client
       ELSE /\ mainPc' = "batches"
            /\ client' = [client EXCEPT ![0] = NewCall(join(Delimiter, batches'[1]))]
    /\ UNCHANGED <<prog, otherVars, ioVars, subtitles, limit, provider, tokens,
                   burst, refill, warnings, log, cache>>

\* translate_in_batches: baidu_translate has returned for the current batch;
\* the reply is split, the results are extended and the next batch is sent
BatchReturn ==
    /\ mainPc = "batches" /\ client[0].pc = "returned"
    /\ LET batch == batches[Len(log) + 1]
           translation_text == client[0].ret
           translated_lines == splitOn(translation_text, Delimiter)
       IN  /\ warnings' = IF Len(translated_lines) # Len(batch)
                          THEN warnings + 1 ELSE warnings
           /\ results' = ExtendResults(results, translated_lines, batch)
           /\ processed' = processed + Len(batch)
           /\ log' = Append(log, [size |-> Len(batch), reply |-> translation_text,
                                  before |-> Len(results)])
    /\ IF Len(log) + 1 < Len(batches)
       THEN /\ client' = [client EXCEPT
                             ![0] = NewCall(join(Delimiter, batches[Len(log) + 2]))]
            /\ mainPc' = mainPc
       ELSE /\ client' = [client EXCEPT ![0] = NoCall]
            /\ mainPc' = "write"
    /\ UNCHANGED <<prog, otherVars, ioVars, subtitles, limit, provider, tokens,
                   burst, refill, batches, cache>>

\* translate_in_batches: baidu_translate has raised; the exception leaves
\* translate_in_batches and main, no output file is opened
BatchRaise ==
    /\ mainPc = "batches" /\ client[0].pc = "raised"
    /\ mainPc' = "crashed"
    /\ UNCHANGED <<prog, otherVars, ioVars, subtitles, limit, provider,
                   tokens, burst, refill, client, batches, processed, results, warnings,
                   log, cache>>

\* translate_line_by_line: results = [None] * len(subtitles); every line is
\* submitted to the pool
StartLines ==
    /\ prog = "line" /\ mainPc = "select"
    /\ results' = [k \in 1..Len(subtitles) |-> None]
    /\ client' = [t \in Threads |->
                     IF t \in 1..Len(subtitles)
                     THEN [NoCall EXCEPT !.pc = "queued"] ELSE NoCall]
    /\ mainPc' = "lines"
    /\ UNCHANGED <<prog, otherVars, ioVars, subtitles, limit, provider, tokens,
                   burst, refill, batches, processed, warnings, log, cache>>

\* the threads of the pool that run a task
Running == {t \in Workers : client[t].pc \in {"acquire", "request", "returned"}}

\* worker(i, line): a pool thread takes the oldest queued task, compresses the
\* line and calls baidu_translate
WorkerStart(i) ==
    /\ mainPc = "lines" /\ client[i].pc = "queued"
    /\ Cardinality(Running) < PoolSize
    /\ \A j \in 1..(i - 1) : client[j].pc # "queued"
    /\ client' = [client EXCEPT ![i] = NewCall(compress_line(subtitles[i]))]
    /\ UNCHANGED <<prog, otherVars, ioVars, subtitles, limit, provider, tokens,
                   burst, refill, mainPc, batches, processed, results, warnings, log, cache>>

\* results[i] = translation, mutated: the translation is put at the first
\* entry still None
StoreByArrival(res, i, translation) ==
    LET k == CHOOSE k \in 1..Len(res) :
                 res[k] = None /\ \A m \in 1..(k - 1) : res[m] # None
    IN  [res EXCEPT ![k] = translation]

\* results[i] = translation
StoreResult(res, i, translation) == [res EXCEPT ![i] = translation]

\* worker(i, line): baidu_translate has returned; results[i] = translation
WorkerStore(i) ==
    /\ mainPc = "lines" /\ client[i].pc = "returned"
    /\ results' = StoreResult(results, i, client[i].ret)
    /\ client' = [client EXCEPT ![i].pc = "done"]
    /\ UNCHANGED <<prog, otherVars, ioVars, subtitles, limit, provider, tokens,
                   burst, refill, mainPc, batches, processed, warnings, log, cache>>

\* translate_line_by_line: concurrent.futures.wait returns once every task
\* has finished, by returning or by raising, and results is returned
LinesJoin ==
    /\ mainPc = "lines"
    /\ \A i \in 1..Len(subtitles) : client[i].pc \in {"done", "raised"}
    /\ mainPc' = "write"
    /\ UNCHANGED <<prog, otherVars, ioVars, subtitles, limit, provider, tokens,
                   burst, refill, client, batches, processed, results, warnings, log, cache>>

RECURSIVE WriteLines(_, _, _, _)
\* main, OUTPUT_MODE 0: for every pair of zip(subtitles, translated) the
\* original line, the translation and an empty line are written;
\* translation_line + "\n" raises TypeError when the translation is None
WriteLines(subs, translated, k, lines) ==
    IF k > Min2(Len(subs), Len(translated))
    THEN [lines |-> lines, pc |-> "done"]
    ELSE IF translated[k] = None
         THEN [lines |-> Append(lines, subs[k]), pc |-> "crashed"]
         ELSE WriteLines(subs, translated, k + 1,
                         lines \o <<subs[k], translated[k], <<>>>>)

\* main: the output file is written
WriteOutput ==
    /\ prog \in {"batch", "line"} /\ mainPc = "write"
    /\ LET written == WriteLines(subtitles, results, 1, <<>>)
       IN  /\ output' = written.lines
           /\ mainPc' = written.pc
    /\ UNCHANGED <<prog, otherVars, raw, subtitles, limit, provider,
                   tokens, burst, refill, client, batches, processed, results, warnings,
                   log, cache>>

(***************************************************************************)
(* SRTTranslator.baidu_translate and parallel_translate                    *)
(* (translate_srt_baidu.py 91..162).                                       *)
(***************************************************************************)
\* max_retries = 3
max_retries == 3
\* max_workers = 20
max_workers == 20
\* the texts longer than this many UTF-8 bytes are split before translation
MaxRequestBytes == 6000

\* self.cache[text] = translated, mutated: the dictionary is replaced by one
\* that holds the new entry only
CachePutAlone(c, text, translated) == [x \in {text} |-> translated]

\* self.cache[text] = translated
CachePut(c, text, translated) ==
    [x \in DOMAIN c \cup {text} |-> IF x = text THEN translated ELSE c[x]]

\* the pool threads that run baidu_translate
Busy == {t \in Workers : client[t].pc \in {"entered", "attempt", "part"}}

\* the text of the innermost call of baidu_translate: the text itself, or the
\* piece in translation
CurText(c) == IF c.parts = <<>> THEN c.text ELSE c.parts[Len(c.acc) + 1]

\* the innermost call returns value: the call on the text has ended, or the
\* list of translated pieces has one more entry
Returned(c, value, how) ==
    IF c.parts = <<>>
    THEN [c EXCEPT !.pc = "finished", !.ret = value, !.how = how]
    ELSE [c EXCEPT !.pc = "part", !.acc = Append(@, value)]

\* what no step of SRTTranslator.run changes
RunUnchanged ==
    UNCHANGED <<prog, compVars, batcherVars, splitVars, files, fallback_batch_size,
                fpc, contents, chunk, requests, limit, provider, tokens, burst,
                refill, batches, processed, warnings, log, cache>>

\* run is at a path of file_list
AtSrt == prog = "parallel" /\ mainPc = "run" /\ fpos <= Len(files)

\* run: the path is no file or does not end in .srt; it is skipped
SrtSkip ==
    /\ AtSrt /\ ~files[fpos].valid
    /\ report' = Append(report, "skipped")
    /\ fpos' = fpos + 1
    /\ UNCHANGED <<ioVars, subtitles, mainPc, client, results, invoked>>
    /\ RunUnchanged

\* run: translate_srt_file raises while it reads or parses the file; the
\* except clause prints the error and the loop goes on
SrtUnreadable ==
    /\ AtSrt /\ files[fpos].valid /\ ~files[fpos].readable
    /\ invoked' = Append(invoked, fpos)
    /\ report' = Append(report, "failed")
    /\ fpos' = fpos + 1
    /\ UNCHANGED <<ioVars, subtitles, mainPc, client, results>>
    /\ RunUnchanged

\* translate_srt_file up to the call of parallel_translate: the file is read
\* and parsed, original_texts holds the stripped contents
SrtOpen ==
    /\ AtSrt /\ files[fpos].valid /\ files[fpos].readable
    /\ invoked' = Append(invoked, fpos)
    /\ raw' = files[fpos].contents
    /\ subtitles' = original_texts(files[fpos].contents)
    /\ client' = [t \in Threads |-> NoCall]
    /\ results' = <<>>
    /\ mainPc' = "select"
    /\ UNCHANGED <<output, fpos, report>>
    /\ RunUnchanged

\* parallel_translate: results = [None] * len(texts); every text is submitted
StartParallel ==
    /\ prog = "parallel" /\ mainPc = "select"
    /\ results' = [k \in 1..Len(subtitles) |-> None]
    /\ client' = [t \in Threads |->
                     IF t \in 1..Len(subtitles)
                     THEN [NoCall EXCEPT !.pc = "queued", !.text = subtitles[t]]
                     ELSE NoCall]
    /\ mainPc' = "collect"
    /\ UNCHANGED <<prog, otherVars, ioVars, subtitles, limit, provider, tokens,
                   burst, refill, batches, processed, warnings, log, cache>>

\* ThreadPoolExecutor: a pool thread that is free takes the oldest task of the
\* queue and enters baidu_translate with its text
TaskTake(i) ==
    /\ prog = "parallel" /\ mainPc = "collect" /\ client[i].pc = "queued"
    /\ Cardinality(Busy) < max_workers
    /\ \A j \in 1..(i - 1) : client[j].pc # "queued"
    /\ client' = [client EXCEPT ![i].pc = "entered"]
    /\ UNCHANGED <<prog, otherVars, ioVars, subtitles, limit, provider, tokens,
                   burst, refill, mainPc, batches, processed, results, warnings, log, cache>>

\* baidu_translate up to its first request: a cached text is returned from the
\* cache, a text of at most 6000 bytes goes to the retry loop
TaskStart(i) ==
    /\ prog = "parallel" /\ mainPc = "collect" /\ client[i].pc = "entered"
    /\ \/ client[i].text \in DOMAIN cache
       \/ Utf8Len(client[i].text) <= MaxRequestBytes
    /\ IF client[i].text \in DOMAIN cache
       THEN client' = [client EXCEPT ![i].pc = "finished",
                                     ![i].ret = cache[client[i].text],
                                     ![i].how = "cached"]
       ELSE client' = [client EXCEPT ![i].pc = "attempt"]
    /\ UNCHANGED <<prog, otherVars, ioVars, subtitles, limit, provider, tokens,
                   burst, refill, mainPc, batches, processed, results, warnings, log, cache>>

\* baidu_translate: the text is not cached and longer than 6000 bytes;
\* parts = self.split_text(text, 6000)
TaskSplit(i) ==
    /\ prog = "parallel" /\ mainPc = "collect" /\ client[i].pc = "entered"
    /\ client[i].text \notin DOMAIN cache
    /\ Utf8Len(client[i].text) > MaxRequestBytes
    /\ client' = [client EXCEPT
                     ![i].pc = "part",
                     ![i].parts = split_text(client[i].text, MaxRequestBytes),
                     ![i].acc = <<>>]
    /\ UNCHANGED <<prog, otherVars, ioVars, subtitles, limit, provider, tokens,
                   burst, refill, mainPc, batches, processed, results, warnings, log, cache>>

\* self.baidu_translate(part, ...) for the next piece, up to its first
\* request: a cached piece is returned from the cache
PartStart(i) ==
    /\ prog = "parallel" /\ mainPc = "collect" /\ client[i].pc = "part"
    /\ Len(client[i].acc) < Len(client[i].parts)
    /\ IF CurText(client[i]) \in DOMAIN cache
       THEN client' = [client EXCEPT ![i].acc = Append(@, cache[CurText(client[i])])]
       ELSE client' = [client EXCEPT ![i].pc = "attempt", ![i].attempt = 0]
    /\ UNCHANGED <<prog, otherVars, ioVars, subtitles, limit, provider, tokens,
                   burst, refill, mainPc, batches, processed, results, warnings, log, cache>>

\* baidu_translate: every piece is translated; result = "".join(translated_parts)
\* is cached for the text and returned
TaskJoin(i) ==
    /\ prog = "parallel" /\ mainPc = "collect" /\ client[i].pc = "part"
    /\ Len(client[i].acc) = Len(client[i].parts)
    /\ LET result == join(<<>>, client[i].acc)
       IN  /\ cache' = CachePut(cache, client[i].text, result)
           /\ client' = [client EXCEPT ![i].pc = "finished", ![i].ret = result,
                                       ![i].how = "split"]
    /\ UNCHANGED <<prog, otherVars, ioVars, subtitles, limit, provider, tokens,
                   burst, refill, mainPc, batches, processed, results, warnings, log>>

\* for attempt in range(self.max_retries), mutated: one attempt more
MoreAttemptsInclusive(made) == made <= max_retries

\* for attempt in range(self.max_retries): another attempt follows when fewer
\* than max_retries have been made
MoreAttempts(made) == made < max_retries

\* baidu_translate: an attempt raises (the request, the status, or an empty
\* trans_result) or its reply has no trans_result; the call sleeps and, after
\* max_retries attempts, returns ""
TaskFail(i) ==
    /\ prog = "parallel" /\ mainPc = "collect" /\ client[i].pc = "attempt"
    /\ \/ provider \cap (Failures \cup Raises) # {}
       \/ \E outcome \in provider \cap Successes :
             DstItems(CurText(client[i]), outcome) = <<>>
    /\ IF MoreAttempts(client[i].attempt + 1)
       THEN client' = [client EXCEPT ![i].attempt = @ + 1]
       ELSE client' = [client EXCEPT
                         ![i] = Returned([@ EXCEPT !.attempt = @ + 1], <<>>, "failed")]
    /\ UNCHANGED <<prog, otherVars, ioVars, subtitles, limit, provider, tokens,
                   burst, refill, mainPc, batches, processed, results, warnings, log, cache>>

\* baidu_translate: the reply holds trans_result; its first dst is cached
\* and returned
TaskOk(i) ==
    /\ prog = "parallel" /\ mainPc = "collect" /\ client[i].pc = "attempt"
    /\ \E outcome \in provider \cap Successes :
          /\ DstItems(CurText(client[i]), outcome) # <<>>
          /\ LET translated == DstItems(CurText(client[i]), outcome)[1]
             IN  /\ cache' = CachePut(cache, CurText(client[i]), translated)
                 /\ client' = [client EXCEPT
                                 ![i] = Returned([@ EXCEPT !.attempt = @ + 1],
                                                 translated, outcome)]
    /\ UNCHANGED <<prog, otherVars, ioVars, subtitles, limit, provider, tokens,
                   burst, refill, mainPc, batches, processed, results, warnings, log>>

\* results[idx] = future.result()
CollectResult(res, idx, value) == [res EXCEPT ![idx] = value]

\* parallel_translate: as_completed yields a finished future;
\* results[idx] = future.result()
Collect(i) ==
    /\ prog = "parallel" /\ mainPc = "collect" /\ client[i].pc = "finished"
    /\ results' = CollectResult(results, i, client[i].ret)
    /\ client' = [client EXCEPT ![i].pc = "collected"]
    /\ UNCHANGED <<prog, otherVars, ioVars, subtitles, limit, provider, tokens,
                   burst, refill, mainPc, batches, processed, warnings, log, cache>>

\* parallel_translate: every future has been yielded; results is returned
ParallelJoin ==
    /\ prog = "parallel" /\ mainPc = "collect"
    /\ \A i \in 1..Len(subtitles) : client[i].pc = "collected"
    /\ mainPc' = "write"
    /\ UNCHANGED <<prog, otherVars, ioVars, subtitles, limit, provider, tokens,
                   burst, refill, client, batches, processed, results, warnings, log, cache>>

\* translate_srt_file, bilingual_mode: every block gets its content, a line
\* break and the translation; the blocks are written to the output file, and
\* run goes to the next path
WriteSrt ==
    /\ prog = "parallel" /\ mainPc = "write"
    /\ output' = Append(output,
                        [file |-> fpos,
                         blocks |-> [k \in 1..Len(raw) |->
                                        raw[k] \o Delimiter \o results[k]]])
    /\ report' = Append(report, "written")
    /\ fpos' = fpos + 1
    /\ mainPc' = "run"
    /\ UNCHANGED <<raw, subtitles, client, results, invoked>>
    /\ RunUnchanged

\* run: the for loop over file_list has ended
SrtRunEnd ==
    /\ prog = "parallel" /\ mainPc = "run" /\ fpos > Len(files)
    /\ mainPc' = "done"
    /\ UNCHANGED <<ioVars, subtitles, client, results, fpos, invoked, report>>
    /\ RunUnchanged

(***************************************************************************)
(* The first SRTTranslator of the baidu scripts: baidu_translate and       *)
(* translate_srt_file (translate_srt.py 207..242).  It has no cache.       *)
(***************************************************************************)
\* max_workers = 10, as main builds the translator
max_workers_v1 == 10
\* the texts longer than this many UTF-8 bytes are split before translation
MaxRequestBytesV1 == 5800

\* what no step of the first SRTTranslator changes
V1Unchanged ==
    UNCHANGED <<prog, otherVars, raw, subtitles, limit, provider, tokens, burst,
                refill, batches, processed, warnings, log, cache>>

\* translate_srt_file: texts = [sub.content ...]; executor.map submits a call
\* of baidu_translate for every text
V1Start ==
    /\ prog = "v1" /\ mainPc = "select"
    /\ results' = [k \in 1..Len(subtitles) |-> None]
    /\ client' = [t \in Threads |->
                     IF t \in 1..Len(subtitles)
                     THEN [NoCall EXCEPT !.pc = "queued", !.text = subtitles[t]]
                     ELSE NoCall]
    /\ mainPc' = "collect"
    /\ UNCHANGED output
    /\ V1Unchanged

\* ThreadPoolExecutor: a pool thread that is free takes the oldest task of the
\* queue and enters baidu_translate with its text
V1Take(i) ==
    /\ prog = "v1" /\ mainPc = "collect" /\ client[i].pc = "queued"
    /\ Cardinality(Busy) < max_workers_v1
    /\ \A j \in 1..(i - 1) : client[j].pc # "queued"
    /\ client' = [client EXCEPT ![i].pc = "entered"]
    /\ UNCHANGED <<mainPc, results, output>>
    /\ V1Unchanged

\* baidu_translate up to its first request: a text of more than 5800 bytes is
\* split, parts = self.split_text(text); any other goes to the retry loop
V1Enter(i) ==
    /\ prog = "v1" /\ mainPc = "collect" /\ client[i].pc = "entered"
    /\ IF Utf8Len(client[i].text) > MaxRequestBytesV1
       THEN client' = [client EXCEPT
                         ![i].pc = "part",
                         ![i].parts = split_text_v1(client[i].text, MaxRequestBytesV1),
                         ![i].acc = <<>>]
       ELSE client' = [client EXCEPT ![i].pc = "attempt"]
    /\ UNCHANGED <<mainPc, results, output>>
    /\ V1Unchanged

\* self.baidu_translate(part, ...) for the next piece, up to its first request
V1PartStart(i) ==
    /\ prog = "v1" /\ mainPc = "collect" /\ client[i].pc = "part"
    /\ Len(client[i].acc) < Len(client[i].parts)
    /\ client' = [client EXCEPT ![i].pc = "attempt", ![i].attempt = 0]
    /\ UNCHANGED <<mainPc, results, output>>
    /\ V1Unchanged

\* baidu_translate: every piece is translated; "".join(...) is returned
V1Join(i) ==
    /\ prog = "v1" /\ mainPc = "collect" /\ client[i].pc = "part"
    /\ Len(client[i].acc) = Len(client[i].parts)
    /\ client' = [client EXCEPT ![i].pc = "finished",
                                ![i].ret = join(<<>>, client[i].acc),
                                ![i].how = "split"]
    /\ UNCHANGED <<mainPc, results, output>>
    /\ V1Unchanged

\* baidu_translate: an attempt raises inside the try (the request, the status,
\* response.json(), or an empty trans_result) and the call sleeps, or its
\* reply has no trans_result; after max_retries attempts the call returns ""
V1Fail(i) ==
    /\ prog = "v1" /\ mainPc = "collect" /\ client[i].pc = "attempt"
    /\ \/ provider \cap (Failures \cup Raises) # {}
       \/ \E outcome \in provider \cap Successes :
             DstItems(CurText(client[i]), outcome) = <<>>
    /\ IF MoreAttempts(client[i].attempt + 1)
       THEN client' = [client EXCEPT ![i].attempt = @ + 1, ![i].sent = @ + 1]
       ELSE client' = [client EXCEPT
                         ![i] = Returned([@ EXCEPT !.attempt = @ + 1, !.sent = @ + 1],
                                         <<>>, "failed")]
    /\ UNCHANGED <<mainPc, results, output>>
    /\ V1Unchanged

\* baidu_translate: the reply holds trans_result; its first dst is returned
V1Ok(i) ==
    /\ prog = "v1" /\ mainPc = "collect" /\ client[i].pc = "attempt"
    /\ \E outcome \in provider \cap Successes :
          /\ DstItems(CurText(client[i]), outcome) # <<>>
          /\ client' = [client EXCEPT
                          ![i] = Returned([@ EXCEPT !.attempt = @ + 1, !.sent = @ + 1],
                                          DstItems(CurText(client[i]), outcome)[1],
                                          outcome)]
    /\ UNCHANGED <<mainPc, results, output>>
    /\ V1Unchanged

\* translate_srt_file: list(executor.map(...)) has every result, in the order
\* of the texts
V1Gather ==
    /\ prog = "v1" /\ mainPc = "collect"
    /\ \A i \in 1..Len(subtitles) : client[i].pc = "finished"
    /\ results' = [k \in 1..Len(subtitles) |-> client[k].ret]
    /\ mainPc' = "write"
    /\ UNCHANGED <<client, output>>
    /\ V1Unchanged

\* translate_srt_file: every block gets its content, a line break and the
\* translation; the blocks are written to the output file
V1Write ==
    /\ prog = "v1" /\ mainPc = "write"
    /\ output' = [k \in 1..Len(raw) |-> raw[k] \o Delimiter \o results[k]]
    /\ mainPc' = "done"
    /\ UNCHANGED <<client, results>>
    /\ V1Unchanged

Next ==
    \/ Replenish
    \/ \E t \in Threads : Acquire(t) \/ RespondFail(t) \/ RespondOk(t)
    \/ \E t \in Threads : RespondRaise(t)
    \/ StartBatches
    \/ BatchReturn
    \/ BatchRaise
    \/ StartLines
    \/ \E i \in Workers : WorkerStart(i) \/ WorkerStore(i)
    \/ LinesJoin
    \/ SrtSkip
    \/ SrtUnreadable
    \/ SrtOpen
    \/ StartParallel
    \/ \E i \in Workers : TaskTake(i) \/ TaskStart(i)
    \/ \E i \in Workers : TaskFail(i) \/ TaskOk(i) \/ Collect(i)
    \/ \E i \in Workers : TaskSplit(i) \/ PartStart(i) \/ TaskJoin(i)
    \/ ParallelJoin
    \/ WriteOutput
    \/ WriteSrt
    \/ SrtRunEnd
    \/ V1Start
    \/ \E i \in Workers : V1Take(i) \/ V1Enter(i) \/ V1PartStart(i) \/ V1Join(i)
    \/ \E i \in Workers : V1Fail(i) \/ V1Ok(i)
    \/ V1Gather
    \/ V1Write
    \/ SplitCall

Spec == Init /\ [][Next]_vars

\* batch mode against a provider that fails now and then, and against one
\* that fails on every attempt
RetryRuns ==
    {[prog |-> "batch", raw |-> FlakyLines, limit |-> lim, provider |-> pr] :
        lim \in {SmallLimit, DefaultLimit}, pr \in {Flaky, Failures}}

InitRetry == InitOf(RetryRuns)

\* the steps of the main thread in batch mode and of the replenish thread
NextRetry ==
    \/ Replenish
    \/ Acquire(0)
    \/ RespondFail(0)
    \/ RespondOk(0)
    \/ StartBatches
    \/ BatchReturn
    \/ WriteOutput

\* the main thread takes a step whenever it can, the replenish thread keeps
\* running and the provider answers every request, well or badly
FairRetry ==
    /\ WF_vars(Replenish)
    /\ WF_vars(Acquire(0))
    /\ WF_vars(RespondFail(0) \/ RespondOk(0))
    /\ WF_vars(StartBatches \/ BatchReturn \/ WriteOutput)

SpecRetry == InitRetry /\ [][NextRetry]_vars /\ FairRetry

\* line mode against a provider whose attempts may fail: the workers share
\* the bucket
BucketRuns ==
    {[prog |-> "line", raw |-> FlakyLines, limit |-> DefaultLimit, provider |-> Flaky]}

InitBucket == InitOf(BucketRuns)

\* the pool threads that get a line of the file
BucketWorkers == 1..Len(FlakyLines)

\* the steps of the main thread, the pool threads and the replenish thread in
\* line mode
NextBucket ==
    \/ Replenish
    \/ \E t \in Workers : Acquire(t) \/ RespondFail(t) \/ RespondOk(t)
    \/ StartLines
    \/ \E i \in Workers : WorkerStart(i) \/ WorkerStore(i)
    \/ LinesJoin
    \/ WriteOutput

\* the replenish thread keeps running, every thread takes a step whenever it
\* can, the provider answers every request, and the attempts of a call do not
\* fail for ever
FairBucket ==
    /\ WF_vars(Replenish)
    /\ WF_vars(StartLines \/ LinesJoin \/ WriteOutput)
    /\ \A t \in BucketWorkers :
          /\ WF_vars(WorkerStart(t) \/ WorkerStore(t))
          /\ WF_vars(Acquire(t))
          /\ WF_vars(RespondFail(t) \/ RespondOk(t))
          /\ SF_vars(RespondOk(t))

SpecBucket == InitBucket /\ [][NextBucket]_vars /\ FairBucket

(***************************************************************************)
(* SRTTranslator of the DeepL script: translate_texts, translate_srt_file   *)
(* and run (translate_srt.py 58..151).                                     *)
(***************************************************************************)
\* bilingual_mode, as main and the constructor's default set it
bilingual_mode == TRUE
\* fallback_batch_size, the constructor's default
DefaultBatchSize == 1000
\* fallback_batch_size as main sets it, a size between, and the default
BatchSizes == {1, 2, DefaultBatchSize}

\* translate_text answers with one entry per text, with the last entry
\* missing, or raises
DeeplReplies == {"ok", "short"}

\* the text DeepL gives for a text
Translated(text) == <<"#">> \o text

\* translate_texts: [r.text for r in result]
translate_texts(texts, outcome) ==
    LET all == [k \in 1..Len(texts) |-> Translated(texts[k])]
    IN  IF outcome = "ok" THEN all ELSE SubSeq(all, 1, Len(all) - 1)

\* [sub.content if sub.content.strip() else " " for sub in subtitles]
DeeplTexts(cs) ==
    [k \in 1..Len(cs) |-> IF strip(cs[k]) # <<>> THEN cs[k] ELSE <<" ">>]

\* subtitles[idx].content in bilingual mode and otherwise
NewContent(content, translated) ==
    IF bilingual_mode THEN content \o Delimiter \o translated ELSE translated

\* the contents after the loop over the translations of the texts from
\* offset i on: entry j of the reply goes to subtitle i + j
UpdateFrom(cs, i, reply) ==
    [k \in 1..Len(cs) |->
        IF k > i /\ k <= i + Len(reply) THEN NewContent(cs[k], reply[k - i])
        ELSE cs[k]]

\* range(0, total, fallback_batch_size), mutated: an index is left out
\* between two chunks
NextChunkSkipping(i, size) == i + size + 1

\* range(0, total, fallback_batch_size): the offset of the chunk after i
NextChunk(i, size) == i + size

\* the for loop of run without the try: the error ends the loop
AfterErrorAbort(pos, n) == n + 1

\* the for loop of run after the except clause has printed the error
AfterError(pos, n) == pos + 1

\* the contents of the subtitles of the files
Letters == <<"a", "b", "c", "d", "e">>
BlockContent(k) == IF k = 2 THEN <<" ">> ELSE <<Letters[k]>>

\* a path that is no .srt file, an .srt file that cannot be read or parsed,
\* and .srt files of 0 to MaxBlocks subtitles
FilePool ==
    {[valid |-> FALSE, readable |-> TRUE, contents |-> <<>>],
     [valid |-> TRUE, readable |-> FALSE, contents |-> <<>>]}
    \cup {[valid |-> TRUE, readable |-> TRUE,
           contents |-> [k \in 1..n |-> BlockContent(k)]] : n \in 0..MaxBlocks}

InitFiles ==
    /\ prog = "deepl"
    /\ files \in SeqsUpTo(FilePool, MaxFiles) \ {<<>>}
    /\ fallback_batch_size \in BatchSizes
    /\ fpos = 1
    /\ fpc = "run"
    /\ contents = <<>>
    /\ chunk = 0
    /\ requests = <<>>
    /\ invoked = <<>>
    /\ report = <<>>
    /\ RunIdle /\ PureIdle /\ SplitIdle

\* what no step of run changes
OtherUnchanged ==
    UNCHANGED <<prog, compVars, batcherVars, splitVars, subtitles, limit, provider,
                tokens, burst, refill, mainPc, client, batches, processed, results,
                warnings, log, cache, raw, files, fallback_batch_size>>

\* the file the for loop of run is at
AtFile == prog = "deepl" /\ fpc = "run" /\ fpos <= Len(files)

\* original_texts of the file in translation
Originals == DeeplTexts(files[fpos].contents)

\* the texts of the chunk at offset i: original_texts[i: i + fallback_batch_size]
ChunkTexts(i) ==
    SubSeq(Originals, i + 1, Min2(i + fallback_batch_size, Len(Originals)))

\* a call of translate_texts on the texts lo..hi of the file
Request(lo, hi) == [file |-> fpos, lo |-> lo, hi |-> hi, reply |-> "pending"]

\* the list of requests with the reply of the last one
Replied(reply) == [requests EXCEPT ![Len(requests)].reply = reply]

\* run: the path is no file or does not end in .srt
SkipFile ==
    /\ AtFile /\ ~files[fpos].valid
    /\ report' = Append(report, "skipped")
    /\ fpos' = fpos + 1
    /\ UNCHANGED <<fpc, contents, chunk, requests, invoked, output>>
    /\ OtherUnchanged

\* run: translate_srt_file raises while it reads or parses the file; the
\* except clause prints the error
FileUnreadable ==
    /\ AtFile /\ files[fpos].valid /\ ~files[fpos].readable
    /\ invoked' = Append(invoked, fpos)
    /\ report' = Append(report, "failed")
    /\ fpos' = AfterError(fpos, Len(files))
    /\ UNCHANGED <<fpc, contents, chunk, requests, output>>
    /\ OtherUnchanged

\* translate_srt_file up to the call of translate_texts on all the texts
FileStart ==
    /\ AtFile /\ files[fpos].valid /\ files[fpos].readable
    /\ invoked' = Append(invoked, fpos)
    /\ contents' = files[fpos].contents
    /\ requests' = Append(requests, Request(1, Len(files[fpos].contents)))
    /\ fpc' = "single"
    /\ UNCHANGED <<fpos, chunk, report, output>>
    /\ OtherUnchanged

\* translate_srt_file from the writing of the output file on: the file is
\* written with the given contents, and run goes to the next file
FileWritten(cs, reply) ==
    /\ contents' = cs
    /\ output' = Append(output, [file |-> fpos, blocks |-> cs])
    /\ requests' = Replied(reply)
    /\ report' = Append(report, "written")
    /\ fpos' = fpos + 1
    /\ fpc' = "run"
    /\ UNCHANGED <<chunk, invoked>>

\* translate_srt_file: the call on all the texts returns one entry per text;
\* every subtitle gets its translation and the file is written
SingleOk ==
    /\ prog = "deepl" /\ fpc = "single"
    /\ FileWritten(UpdateFrom(contents, 0, translate_texts(Originals, "ok")), "ok")
    /\ OtherUnchanged

\* translate_srt_file: the call on all the texts raises, or the loop over
\* range(total) runs past a reply that is too short and raises IndexError
\* after the subtitles before that index got their translation; the fallback
\* loop starts with the chunk at offset 0
SingleFail ==
    /\ prog = "deepl" /\ fpc = "single"
    /\ \E outcome \in {"short", "raise"} :
          /\ outcome = "short" => Len(Originals) >= 1
          /\ LET cs == IF outcome = "short"
                       THEN UpdateFrom(contents, 0, translate_texts(Originals, outcome))
                       ELSE contents
             IN  IF Len(Originals) = 0
                 THEN FileWritten(cs, outcome)
                 ELSE /\ contents' = cs
                      /\ chunk' = 0
                      /\ requests' = Append(Replied(outcome),
                                            Request(1, Min2(fallback_batch_size,
                                                            Len(Originals))))
                      /\ fpc' = "fallback"
                      /\ UNCHANGED <<fpos, invoked, report, output>>
    /\ OtherUnchanged

\* translate_srt_file: the call on a chunk returns; entry j of the reply goes
\* to subtitle i + j, and the loop goes to the next chunk or ends
ChunkOk ==
    /\ prog = "deepl" /\ fpc = "fallback"
    /\ \E outcome \in DeeplReplies :
          LET cs == UpdateFrom(contents, chunk,
                               translate_texts(ChunkTexts(chunk), outcome))
              next == NextChunk(chunk, fallback_batch_size)
          IN  IF next < Len(Originals)
              THEN /\ contents' = cs
                   /\ chunk' = next
                   /\ requests' = Append(Replied(outcome),
                                         Request(next + 1,
                                                 Min2(next + fallback_batch_size,
                                                      Len(Originals))))
                   /\ UNCHANGED <<fpos, fpc, invoked, report, output>>
              ELSE FileWritten(cs, outcome)
    /\ OtherUnchanged

\* translate_srt_file: the call on a chunk raises; translate_srt_file raises
\* and the except clause of run prints the error
ChunkRaise ==
    /\ prog = "deepl" /\ fpc = "fallback"
    /\ requests' = Replied("raise")
    /\ report' = Append(report, "failed")
    /\ fpos' = AfterError(fpos, Len(files))
    /\ fpc' = "run"
    /\ UNCHANGED <<contents, chunk, invoked, output>>
    /\ OtherUnchanged

\* run: the for loop has ended
RunEnd ==
    /\ prog = "deepl" /\ fpc = "run" /\ fpos > Len(files)
    /\ fpc' = "finished"
    /\ UNCHANGED <<fpos, contents, chunk, requests, invoked, report, output>>
    /\ OtherUnchanged

NextFiles ==
    \/ SkipFile
    \/ FileUnreadable
    \/ FileStart
    \/ SingleOk
    \/ SingleFail
    \/ ChunkOk
    \/ ChunkRaise
    \/ RunEnd

SpecFiles == InitFiles /\ [][NextFiles]_vars

\* run is one sequential thread: it takes its next step as long as it has one
SpecFilesFair == InitFiles /\ [][NextFiles]_vars /\ WF_vars(NextFiles)

(***************************************************************************)
(* Claims about compress_line.                                             *)
(***************************************************************************)
\* the positions where a maximal run of equal tokens starts
RunStarts(words) ==
    {j \in 1..Len(words) : j = 1 \/ words[j - 1] # words[j]}

\* the length of the maximal run that starts at j
RunLenAt(words, j) ==
    CHOOSE k \in 1..(Len(words) - j + 1) :
        /\ \A m \in 0..(k - 1) : words[j + m] = words[j]
        /\ j + k > Len(words) \/ words[j + k] # words[j]

HasLongRun(words) ==
    \E j \in RunStarts(words) : RunLenAt(words, j) >= 3

Copies(w, n) == [m \in 1..n |-> w]

RECURSIVE ExpectedFrom(_, _)
\* run by run from position j: three copies and "..." for a run of three or
\* more, the run itself otherwise
ExpectedFrom(words, j) ==
    IF j > Len(words) THEN <<>>
    ELSE LET k == RunLenAt(words, j)
         IN  (IF k >= 3 THEN Copies(words[j], 3) \o <<Ellipsis>>
                        ELSE Copies(words[j], k))
             \o ExpectedFrom(words, j + k)

\* C6 as claimed: the second call of compress_line returns what the first returned
C6_Idempotent ==
    (prog = "compress" /\ Len(c_hist) >= 3) => c_hist[3] = c_hist[2]

\* C6 amended: compress_line(compress_line(s)) = compress_line(s) for every
\* line s with no run of three or more equal tokens; for a line with such a
\* run and no "..." token of its own the second call appends a further "..."
\* after each kept triple, so the two outputs differ
C6_IdempotentWithoutLongRun ==
    (prog = "compress" /\ Len(c_hist) >= 3) =>
        LET words == split(c_hist[1])
        IN  /\ ~HasLongRun(words) => c_hist[3] = c_hist[2]
            /\ (HasLongRun(words) /\ \A j \in 1..Len(words) : words[j] # Ellipsis)
                   => /\ c_hist[3] # c_hist[2]
                      /\ Len(split(c_hist[3])) > Len(split(c_hist[2]))

\* a line with a run of two and no longer run, compressed twice
C6_Witness ==
    /\ prog = "compress" /\ Len(c_hist) >= 3
    /\ ~HasLongRun(split(c_hist[1]))
    /\ \E j \in RunStarts(split(c_hist[1])) : RunLenAt(split(c_hist[1]), j) = 2
    /\ c_hist[2] # c_hist[1]

\* C7: every call of compress_line on a line with tokens returns, joined by
\* single spaces and in order, three copies and one "..." for each maximal run
\* of three or more equal tokens and each shorter run unchanged; a line
\* without tokens is returned as it is
C7_RunsCompressed ==
    prog = "compress" =>
        \A n \in 2..Len(c_hist) :
            LET words == split(c_hist[n - 1])
            IN  IF words = <<>>
                THEN c_hist[n] = c_hist[n - 1]
                ELSE /\ c_hist[n] = join(<<" ">>, ExpectedFrom(words, 1))
                     /\ split(c_hist[n]) = ExpectedFrom(words, 1)

\* a line with a run of four or more, a run of exactly three and a short run
C7_Witness ==
    /\ prog = "compress" /\ Len(c_hist) >= 2
    /\ LET words == split(c_hist[1])
       IN  /\ \E j \in RunStarts(words) : RunLenAt(words, j) >= 4
           /\ \E j \in RunStarts(words) : RunLenAt(words, j) < 3
           /\ Len(split(c_hist[2])) < Len(words)

(***************************************************************************)
(* Claims about batch_subtitles.                                           *)
(***************************************************************************)
RECURSIVE Flatten(_)
Flatten(bs) == IF bs = <<>> THEN <<>> ELSE bs[1] \o Flatten(Tail(bs))

RECURSIVE SumLen(_)
SumLen(bs) == IF bs = <<>> THEN 0 ELSE Len(bs[1]) + SumLen(Tail(bs))

\* the size of a batch once joined into one request text
PackedSize(batch, delimiter) == Len(join(delimiter, batch))

\* C8: when no unit is longer than limit, the batches hold every unit once,
\* concatenate to the input list, are not empty and have packed size <= limit
C8_BatchesPartition ==
    (prog = "batcher" /\ b_out # <<>>
        /\ \A k \in 1..Len(b_in.subtitles) : Len(b_in.subtitles[k]) <= b_in.limit) =>
        LET bs == b_out[1]
        IN  /\ SumLen(bs) = Len(b_in.subtitles)
            /\ Flatten(bs) = b_in.subtitles
            /\ \A n \in 1..Len(bs) : bs[n] # <<>>
            /\ \A n \in 1..Len(bs) : PackedSize(bs[n], b_in.delimiter) <= b_in.limit

\* an exact fit: three units in two batches, the first filled to the limit
C8_Witness ==
    /\ prog = "batcher" /\ b_out # <<>>
    /\ \A k \in 1..Len(b_in.subtitles) : Len(b_in.subtitles[k]) <= b_in.limit
    /\ Len(b_in.subtitles) = 3 /\ Len(b_out[1]) = 2
    /\ Len(b_out[1][1]) = 2
    /\ PackedSize(b_out[1][1], b_in.delimiter) = b_in.limit


\* the size the current batch would have with one more unit: its packed
\* size, one delimiter, the unit
SizeWith(batch, unit, delimiter) ==
    PackedSize(batch, delimiter) + Len(delimiter) + Len(unit)

\* C20: batch_subtitles is greedy. The batches are the units in order; a unit
\* that is not the first of its batch joined it because the packed size of the
\* units before it in the batch, one delimiter and the unit came to limit or
\* less (an exact fit is accepted); a unit that opens a later batch did so
\* because the packed size of the whole batch before it, one delimiter and
\* the unit came to more than limit (one over is rejected); so a unit longer
\* than limit is alone in its batch
C20_GreedyPacking ==
    (prog = "batcher" /\ b_out # <<>>) =>
        LET bs == b_out[1]
            d == b_in.delimiter
        IN  /\ Flatten(bs) = b_in.subtitles
            /\ \A n \in 1..Len(bs) : bs[n] # <<>>
            /\ \A n \in 1..Len(bs) : \A j \in 2..Len(bs[n]) :
                  SizeWith(SubSeq(bs[n], 1, j - 1), bs[n][j], d) <= b_in.limit
            /\ \A n \in 2..Len(bs) :
                  SizeWith(bs[n - 1], bs[n][1], d) > b_in.limit
            /\ \A n \in 1..Len(bs) : \A j \in 1..Len(bs[n]) :
                  Len(bs[n][j]) > b_in.limit => Len(bs[n]) = 1

\* a unit was one character over and opened the second batch, and the unit
\* after it was an exact fit and joined that batch
C20_Witness ==
    /\ prog = "batcher" /\ b_out # <<>>
    /\ Len(b_out[1]) = 2 /\ Len(b_out[1][2]) = 2
    /\ SizeWith(b_out[1][1], b_out[1][2][1], b_in.delimiter) = b_in.limit + 1
    /\ SizeWith(<<b_out[1][2][1]>>, b_out[1][2][2], b_in.delimiter) = b_in.limit

\* a unit longer than limit stands alone between two batches
C20_LongUnitWitness ==
    /\ prog = "batcher" /\ b_out # <<>>
    /\ Len(b_out[1]) = 3 /\ Len(b_out[1][2]) = 1
    /\ Len(b_out[1][2][1]) > b_in.limit
    /\ b_in.limit >= 1

(***************************************************************************)
(* Claims about translate_in_batches.                                      *)
(***************************************************************************)
\* the pieces of the reply to batch b
Pieces(b) == splitOn(log[b].reply, Delimiter)

RECURSIVE UnitsBefore(_)
\* the units of the batches before batch b
UnitsBefore(b) == IF b <= 1 THEN 0 ELSE UnitsBefore(b - 1) + log[b - 1].size

\* the entries the reply to batch b added to the result list
Gained(b) ==
    (IF b < Len(log) THEN log[b + 1].before ELSE Len(results)) - log[b].before

\* C1 as claimed: every reply adds exactly len(batch) entries, cut or padded
\* with "", so the entry of unit i is at position i, also after a reply with
\* another number of pieces
C1_ResultsAligned ==
    prog = "batch" =>
        /\ Len(results) = processed
        /\ \A b \in 1..Len(log) : \A j \in 1..log[b].size :
              /\ UnitsBefore(b) + j <= Len(results)
              /\ results[UnitsBefore(b) + j] =
                    IF j <= Len(Pieces(b)) THEN Pieces(b)[j] ELSE <<>>

\* C2 as claimed: a reply with one line fewer than the batch has units is
\* warned about, and the batch still gets one entry per unit, the last one ""
C2_ShortReplyPadded ==
    prog = "batch" =>
        \A b \in 1..Len(log) :
            Len(Pieces(b)) = log[b].size - 1 =>
                /\ warnings >= 1
                /\ Gained(b) = log[b].size
                /\ results[log[b].before + Gained(b)] = <<>>

\* the reply to every finished batch is the request text itself
AllEchoed ==
    \A b \in 1..Len(log) : log[b].reply = join(Delimiter, batches[b])

\* C9: while the provider echoes the request text, the result list holds the
\* compressed text of unit i at position i for every unit handled so far, and
\* of every unit once all batches are done
C9_EchoRoundTrip ==
    (prog = "batch" /\ mainPc # "select" /\ AllEchoed) =>
        /\ results = SubSeq(Compressed(subtitles), 1, processed)
        /\ processed = SumLen(SubSeq(batches, 1, Len(log)))
        /\ mainPc \in {"write", "done"} => results = Compressed(subtitles)

\* all batches done with an echoing provider: a batch of one unit after a
\* batch of two, and a line that compress_line has shortened
C9_Witness ==
    /\ prog = "batch" /\ mainPc = "done" /\ AllEchoed
    /\ Len(batches) = 2 /\ Len(batches[1]) = 2 /\ Len(batches[2]) = 1
    /\ Compressed(subtitles) # subtitles

(***************************************************************************)
(* Claims about the token bucket and baidu_translate.                      *)
(***************************************************************************)
\* C3 as claimed, for the window that starts when replenish_tokens wakes and
\* ends before it wakes again (T <= interval, ceil(T / interval) = 1): the
\* acquires completed in it, of which burst counts the first attempts, are at
\* most capacity
C3_RateCeiling == burst <= Capacity

\* C4 as claimed: the available permits stay between 0 and the capacity
C4_TokensWithinCapacity == tokens >= 0 /\ tokens <= Capacity

\* C5 as claimed: every call of baidu_translate ends, by returning or with a
\* terminal error
C5_CallsTerminate ==
    \A t \in Threads :
        (client[t].pc = "acquire") ~> (client[t].pc \in {"returned", "raised"})

(***************************************************************************)
(* Claims about translate_line_by_line and parallel_translate.             *)
(***************************************************************************)
\* what baidu_translate of the script returns for line i, given how its last
\* attempt ended
LineTranslation(i) == Translation(compress_line(subtitles[i]), client[i].how)

\* what SRTTranslator.baidu_translate returns for text i: the first dst, which
\* is the first line of the text, or "" after max_retries failed attempts; for
\* a text of more than 6000 bytes, the translations of its pieces in one
\* string, or the entry of the cache
TextTranslation(i) ==
    CASE client[i].how = "failed" -> <<>>
      [] client[i].how = "split" -> join(<<>>, client[i].acc)
      [] client[i].how = "cached" -> client[i].ret
      [] OTHER -> splitOn(subtitles[i], Delimiter)[1]

\* C10: whatever the order in which the workers finish, position i of the
\* result list is unwritten until the call for input i has ended, and then
\* holds the translation of input i
C10_PlacedByIndex ==
    /\ prog = "line" /\ mainPc # "select" =>
          \A i \in 1..Len(subtitles) :
              IF client[i].pc = "done"
              THEN results[i] = LineTranslation(i)
              ELSE results[i] = None
    /\ prog = "parallel" /\ mainPc # "select" =>
          \A i \in 1..Len(subtitles) :
              IF client[i].pc = "collected"
              THEN results[i] = TextTranslation(i)
              ELSE results[i] = None

\* the last line is stored before the first, and their translations differ
C10_Witness ==
    /\ prog = "line" /\ mainPc = "lines"
    /\ Len(subtitles) >= 2
    /\ results[1] = None
    /\ client[Len(subtitles)].pc = "done"
    /\ results[Len(subtitles)] # None
    /\ LineTranslation(Len(subtitles)) # Translation(compress_line(subtitles[1]), "echo")

\* C11 as claimed: when the per-unit pipeline has completed, every index has
\* been written, once, and holds a string, also when the call of a worker
\* ended with an error
C11_EveryIndexWritten ==
    (prog \in {"line", "parallel"} /\ mainPc \in {"write", "done", "crashed"}) =>
        \A i \in 1..Len(subtitles) :
            /\ results[i] # None
            /\ client[i].pc \in {"done", "collected"}

(***************************************************************************)
(* Claims about SRTTranslator.baidu_translate.                             *)
(***************************************************************************)
\* the calls of SRTTranslator.baidu_translate that have ended
Ended(i) == client[i].pc \in {"finished", "collected"}

\* C12, in every state: a call has made at most max_retries attempts; a call
\* that ended with a reply returns the first dst of that reply, a call that
\* returns "" has made max_retries attempts, a cached text costs no attempt
C12_AttemptsAndReturn ==
    prog = "parallel" =>
        \A i \in 1..Len(subtitles) :
            /\ client[i].attempt <= max_retries
            /\ (Ended(i) /\ client[i].how \in Successes) =>
                  /\ client[i].attempt >= 1
                  /\ client[i].ret = DstItems(client[i].text, client[i].how)[1]
            /\ (Ended(i) /\ client[i].how = "failed") =>
                  client[i].attempt = max_retries /\ client[i].ret = <<>>
            /\ (Ended(i) /\ client[i].how = "cached") => client[i].attempt = 0
            /\ Ended(i) => client[i].how \in Successes \cup {"failed", "cached", "split"}

\* what C12 says of a call of the first SRTTranslator on a text of at most
\* the given number of bytes: it has sent at most max_retries requests; when
\* it ended with a reply it returns the first dst of that reply to the text,
\* when it returns "" it has sent max_retries requests, and it ends in no
\* other way
V1BoundedUpTo(bytes) ==
    prog = "v1" =>
        \A i \in 1..Len(subtitles) :
            Utf8Len(client[i].text) <= bytes =>
                /\ client[i].sent <= max_retries
                /\ (client[i].pc = "finished" /\ client[i].how \in Successes) =>
                      /\ client[i].sent >= 1
                      /\ client[i].ret = DstItems(client[i].text, client[i].how)[1]
                /\ (client[i].pc = "finished" /\ client[i].how = "failed") =>
                      client[i].sent = max_retries /\ client[i].ret = <<>>
                /\ client[i].pc = "finished" =>
                      client[i].how \in Successes \cup {"failed"}

\* C12 as claimed: both SRTTranslator.baidu_translate, for a text of at most
\* 6000 bytes that is not cached, make at most max_retries attempts, return
\* the translation of the first attempt that succeeds and make no attempt
\* after it, and return "" when max_retries attempts have failed
C12_WithinSixThousand ==
    C12_AttemptsAndReturn /\ V1BoundedUpTo(MaxRequestBytes)

\* C12, the first SRTTranslator above its 5800 bytes: the text is cut into
\* pieces of at most 5800 bytes, every piece gets at most max_retries
\* attempts, and the call returns what the calls on the pieces returned
C12_V1PerPiece ==
    prog = "v1" =>
        \A i \in 1..Len(subtitles) :
            /\ client[i].attempt <= max_retries
            /\ client[i].parts # <<>> =>
                  /\ Utf8Len(client[i].text) > MaxRequestBytesV1
                  /\ \A k \in 1..Len(client[i].parts) :
                        Utf8Len(client[i].parts[k]) <= MaxRequestBytesV1
                  /\ client[i].sent <= max_retries * Len(client[i].parts)
            /\ (client[i].pc = "finished"
                    /\ Utf8Len(client[i].text) > MaxRequestBytesV1) =>
                  /\ client[i].how = "split"
                  /\ client[i].ret = join(<<>>, client[i].acc)

\* C12: SRTTranslator.baidu_translate of translate_srt_baidu.py, for a text
\* of at most 6000 bytes that is not cached, and the baidu_translate of the
\* first SRTTranslator, for a text of at most 5800 bytes, makes at most
\* max_retries attempts, returns the translation of the first attempt that
\* succeeds and makes no attempt after it, and returns "" when max_retries
\* attempts have failed; the first SRTTranslator gives a text of more than
\* 5800 bytes up to max_retries attempts per piece; the calls made for a file
\* stay as they ended until the next file is opened
C12_BoundedRetries ==
    /\ []C12_AttemptsAndReturn
    /\ []V1BoundedUpTo(MaxRequestBytesV1)
    /\ []C12_V1PerPiece
    /\ [][(prog = "parallel" /\ invoked' = invoked) =>
            \A i \in 1..Len(subtitles) :
                Ended(i) => /\ client'[i].attempt = client[i].attempt
                            /\ client'[i].ret = client[i].ret
                            /\ Ended(i)']_vars
    /\ [][prog = "v1" =>
            \A i \in 1..Len(subtitles) :
                client[i].pc = "finished" => client'[i] = client[i]]_vars

\* one call has returned "" after max_retries failed attempts, another has
\* returned the reply of its second attempt
C12_Witness ==
    /\ prog = "parallel"
    /\ \E i, j \in 1..Len(subtitles) :
          /\ Ended(i) /\ client[i].how = "failed" /\ client[i].attempt = max_retries
          /\ Ended(j) /\ client[j].how = "echo" /\ client[j].attempt = 2
          /\ client[j].ret = client[j].text

\* in the first SRTTranslator one call has returned "" after max_retries
\* failed attempts and another has returned the reply of its second attempt
C12_V1Witness ==
    /\ prog = "v1"
    /\ \E i, j \in 1..Len(subtitles) :
          /\ client[i].pc = "finished" /\ client[i].how = "failed"
          /\ client[i].sent = max_retries
          /\ client[j].pc = "finished" /\ client[j].how = "echo"
          /\ client[j].sent = 2 /\ client[j].ret = client[j].text

\* the first SRTTranslator has cut a text of 5804 bytes into a piece of 5800
\* bytes and a piece of 4, and has sent max_retries requests for the first
\* piece and one for the second
C12_V1SplitWitness ==
    /\ prog = "v1"
    /\ \E i \in 1..Len(subtitles) :
          /\ Utf8Len(client[i].text) <= MaxRequestBytes
          /\ Len(client[i].parts) = 2
          /\ client[i].pc = "finished" /\ client[i].sent = max_retries + 1
          /\ client[i].acc = <<<<>>, client[i].parts[2]>>

\* the file translate_srt_file was last called on
CurrentSrt == invoked[Len(invoked)]

\* C13 as claimed: a text whose max_retries attempts all failed makes its file
\* fail; no output is written in which that block stands as translated
C13_FailureSurfaced ==
    (prog = "parallel" /\ \E i \in 1..Len(subtitles) : client[i].how = "failed") =>
        /\ \A n \in 1..Len(output) : output[n].file # CurrentSrt
        /\ Len(report) >= CurrentSrt => report[CurrentSrt] = "failed"

(***************************************************************************)
(* Claims about the tokens baidu_translate takes.                          *)
(***************************************************************************)
\* the request a call has acquired a token for and not made yet
Pending(t) == IF client[t].pc = "request" THEN 1 ELSE 0

\* C14, in every state: the tokens a call has taken are the requests it has
\* made, and one more while it is between the acquire and the request
C14_TakenIsAttempts ==
    prog \in {"batch", "line"} =>
        \A t \in Threads :
            \/ client[t].taken = client[t].attempt + Pending(t)
            \/ client[t].taken = MaxCount /\ client[t].attempt + Pending(t) >= MaxCount

\* C14, in every step: the bucket loses tokens only one at a time and only to
\* one call that then makes its request; a call makes a request only with the
\* token it has just acquired
C14_TokenStep ==
    /\ tokens' < tokens =>
          /\ tokens' = tokens - 1
          /\ \E t \in Threads :
                /\ client[t].pc = "acquire" /\ client'[t].pc = "request"
                /\ \A u \in Threads \ {t} : client'[u] = client[u]
    /\ \A t \in Threads :
          (prog \in {"batch", "line"} /\ client'[t].pc = "request"
             /\ client[t].pc # "request") => tokens' = tokens - 1

\* C14: every request of the rate-limited client, first attempt or retry, is
\* preceded by one acquire of its own, and every acquire is followed by a
\* request: the tokens consumed are the requests made
C14_TokenPerAttempt == []C14_TakenIsAttempts /\ [][C14_TokenStep]_vars

\* a call is about to make its third request, with its third token
C14_Witness ==
    \E t \in Threads :
        /\ prog \in {"batch", "line"}
        /\ client[t].pc = "request" /\ client[t].taken = 3 /\ client[t].attempt = 2
        /\ client[t].delay = InitialDelay + 2

(***************************************************************************)
(* Claims about SRTTranslator.translate_srt_file and run (DeepL script).   *)
(***************************************************************************)
\* the calls of translate_texts made for file f, in order
RequestsOf(f) == SelectSeq(requests, LAMBDA r : r.file = f)

\* the number of subtitles of file f
Total(f) == Len(files[f].contents)

\* C15: when the call on all the texts of a file has failed, by raising or by
\* a reply with too few entries, the fallback follows: its k-th call asks for
\* the texts (k-1)*fallback_batch_size+1 .. k*fallback_batch_size (cut at the
\* last text), one call after the other while the calls return, and a fallback
\* that has run to its end has asked for every subtitle
C15_FallbackChunks ==
    prog = "deepl" =>
        \A f \in 1..Len(files) :
            LET R == RequestsOf(f)
                failed == R[1].reply \in {"short", "raise"}
            IN  Len(R) >= 1 =>
                  /\ R[1].lo = 1 /\ R[1].hi = Total(f)
                  /\ (failed /\ Total(f) >= 1) => Len(R) >= 2
                  /\ \A k \in 2..Len(R) :
                        /\ failed
                        /\ R[k].lo = (k - 2) * fallback_batch_size + 1
                        /\ R[k].hi = Min2((k - 1) * fallback_batch_size, Total(f))
                        /\ R[k].lo <= R[k].hi
                        /\ k < Len(R) => R[k].reply \in DeeplReplies
                  /\ (Len(R) >= 2 /\ Len(report) >= f /\ report[f] = "written") =>
                        R[Len(R)].hi = Total(f)
                  /\ (Len(R) >= 2 /\ Len(report) >= f /\ report[f] = "failed") =>
                        R[Len(R)].reply = "raise"

\* a file of three subtitles: the reply to the call on all texts was short,
\* the fallback asked for 1..2 and for 3, and the file was written
C15_Witness ==
    /\ prog = "deepl" /\ fallback_batch_size = 2
    /\ Len(report) >= 1 /\ report[1] = "written"
    /\ Total(1) = 3
    /\ [k \in 1..Len(RequestsOf(1)) |->
           <<RequestsOf(1)[k].lo, RequestsOf(1)[k].hi, RequestsOf(1)[k].reply>>]
         = <<<<1, 3, "short">>, <<1, 2, "ok">>, <<3, 3, "ok">>>>

\* the files of file_list that are .srt files
ValidFiles == {f \in 1..Len(files) : files[f].valid}

\* C16, in every state: translate_srt_file has been called once, in list
\* order, on every valid file the loop has passed, whatever became of the
\* files before it, and on no other; every passed file has its report
C16_EachFileOnce ==
    prog = "deepl" =>
        /\ \A k \in 1..(Len(invoked) - 1) : invoked[k] < invoked[k + 1]
        /\ {invoked[k] : k \in 1..Len(invoked)} =
              {f \in ValidFiles : f < fpos \/ (f = fpos /\ fpc # "run")}
        /\ Len(report) = fpos - 1
        /\ \A f \in 1..Len(report) : report[f] = "skipped" <=> f \notin ValidFiles
        /\ fpc = "finished" => fpos = Len(files) + 1

\* C16: run calls translate_srt_file exactly once on each valid file, in list
\* order, and reaches its end, for every list of files and whichever of them
\* fail
C16_RunCoversFiles == []C16_EachFileOnce /\ <>(fpc = "finished")

\* run has ended: a chunk of the fallback of the first file raised, and the
\* second file was written
C16_Witness ==
    /\ prog = "deepl" /\ fpc = "finished"
    /\ Len(files) = 2 /\ invoked = <<1, 2>>
    /\ report = <<"failed", "written">>
    /\ Len(RequestsOf(1)) >= 2

(***************************************************************************)
(* Claims about the lines main sends to the provider.                      *)
(***************************************************************************)
Digits == {"0", "1", "2", "3", "4", "5", "6", "7", "8", "9"}

\* a sequence marker: decimal digits only
IsSequenceMarker(s) == s # <<>> /\ \A k \in 1..Len(s) : s[k] \in Digits

\* HH:MM:SS,mmm
IsTimeStamp(s) ==
    /\ Len(s) = 12
    /\ \A k \in {1, 2, 4, 5, 7, 8, 10, 11, 12} : s[k] \in Digits
    /\ s[3] = ":" /\ s[6] = ":" /\ s[9] = ","

\* HH:MM:SS,mmm --> HH:MM:SS,mmm
IsTimeRange(s) ==
    /\ Len(s) = 29
    /\ IsTimeStamp(SubSeq(s, 1, 12))
    /\ SubSeq(s, 13, 17) = <<" ", "-", "-", ">", " ">>
    /\ IsTimeStamp(SubSeq(s, 18, 29))

\* the lines the claim classifies as not translatable
Structural(line) ==
    \/ strip(line) = <<>>
    \/ IsSequenceMarker(strip(line))
    \/ IsTimeRange(strip(line))

\* C17 as claimed: no blank line, sequence marker or time range is part of a
\* text sent to the provider, and the structural lines of the written output
\* are those of the source, unchanged and in order
C17_StructuralLinesUntouched ==
    prog \in {"batch", "line"} =>
        /\ \A t \in Threads :
              client[t].pc \in {"acquire", "request", "returned"} =>
                  \A k \in 1..Len(splitOn(client[t].text, Delimiter)) :
                      ~Structural(splitOn(client[t].text, Delimiter)[k])
        /\ mainPc = "done" =>
              SelectSeq(output, Structural) = SelectSeq(raw, Structural)

(***************************************************************************)
(* Claims about SRTTranslator.cache.                                       *)
(***************************************************************************)
\* the values the provider of the run can return as first dst for a text
ProviderValues(text) ==
    {DstItems(text, o)[1] : o \in {x \in provider \cap Successes :
                                      DstItems(text, x) # <<>>}}

\* the pieces baidu_translate cuts a text of more than 6000 bytes into: those
\* a call of the file in translation holds, or split_text applied afresh
PartsOf(text) ==
    LET holders == {i \in 1..Len(subtitles) :
                       client[i].text = text /\ client[i].parts # <<>>}
    IN  IF holders # {} THEN client[CHOOSE i \in holders : TRUE].parts
        ELSE split_text(text, MaxRequestBytes)

\* text is among the texts of file f, stripped, or is a piece of one of them
\* that has more than 6000 bytes
InFile(text, f) ==
    \E k \in 1..Len(files[f].contents) :
        LET whole == original_texts(<<files[f].contents[k]>>)[1]
        IN  \/ text = whole
            \/ /\ Utf8Len(whole) > MaxRequestBytes
               /\ \E n \in 1..Len(PartsOf(whole)) : PartsOf(whole)[n] = text

\* baidu_translate is called on text: it is a text of the file in
\* translation or of a file translated before, or a piece of one of more
\* than 6000 bytes
Called(text) ==
    \/ \E i \in 1..Len(subtitles) :
          \/ text = subtitles[i]
          \/ \E n \in 1..Len(client[i].parts) : client[i].parts[n] = text
    \/ \E n \in 1..Len(invoked) : InFile(text, invoked[n])

RECURSIVE JoinsFrom(_, _, _, _)
\* value is made, in order, of one value per piece from piece k on: a first
\* dst of a reply to the piece, or one of the other values given
JoinsFrom(value, parts, k, others) ==
    IF k > Len(parts) THEN value = <<>>
    ELSE \E v \in ProviderValues(parts[k]) \cup others :
            /\ Len(v) <= Len(value)
            /\ SubSeq(value, 1, Len(v)) = v
            /\ JoinsFrom(SubSeq(value, Len(v) + 1, Len(value)), parts, k + 1, others)

\* value is what baidu_translate obtained for text: the first dst of a reply
\* to text, or for a text of more than 6000 bytes the string made, in order,
\* of what the calls on its pieces returned
SoundEntry(text, value) ==
    IF Utf8Len(text) <= MaxRequestBytes
    THEN value \in ProviderValues(text)
    ELSE JoinsFrom(value, PartsOf(text), 1, {<<>>})

\* C18, in every state: every entry of the cache maps a text baidu_translate
\* was called on to what a call obtained for that text, and the text of every
\* call that ended with a reply or with the cached value has its entry
C18_EntriesSound ==
    prog = "parallel" =>
        /\ \A text \in DOMAIN cache :
              Called(text) /\ SoundEntry(text, cache[text])
        /\ \A i \in 1..Len(subtitles) :
              (Ended(i) /\ client[i].how \in Successes \cup {"cached", "split"}) =>
                  /\ client[i].text \in DOMAIN cache
                  /\ Utf8Len(client[i].text) <= MaxRequestBytes =>
                        cache[client[i].text] = client[i].ret

\* C18: under every interleaving of the workers the cache maps texts to values
\* the provider returned for them, and no step takes an entry away or gives
\* it to another text
C18_CacheConsistent ==
    /\ []C18_EntriesSound
    /\ [][prog = "parallel" =>
            \A text \in DOMAIN cache :
                /\ text \in DOMAIN cache'
                /\ Utf8Len(text) <= MaxRequestBytes =>
                      cache'[text] \in ProviderValues(text)]_vars

\* two workers have both missed the cache for the same text and both have
\* written the entry; a third text has its own entry
C18_Witness ==
    /\ prog = "parallel"
    /\ \E i, j, k \in 1..Len(subtitles) :
          /\ i # j /\ client[i].text = client[j].text
          /\ Ended(i) /\ client[i].how \in Successes
          /\ Ended(j) /\ client[j].how \in Successes
          /\ Ended(k) /\ client[k].text # client[i].text
          /\ client[k].text \in DOMAIN cache
          /\ cache[client[k].text] # cache[client[i].text]

(***************************************************************************)
(* Claims about split_text.                                                *)
(***************************************************************************)
\* the bytes of the longest character of a text
LongestChar(text) ==
    IF text = <<>> THEN 0
    ELSE CHOOSE w \in 1..4 :
            /\ \E k \in 1..Len(text) : Utf8Len(<<text[k]>>) = w
            /\ \A k \in 1..Len(text) : Utf8Len(<<text[k]>>) <= w

\* pieces are not empty, none has more than max_bytes bytes, and put together
\* in order they are text
SplitsInto(pieces, text, max_bytes) ==
    /\ \A k \in 1..Len(pieces) :
          pieces[k] # <<>> /\ Utf8Len(pieces[k]) <= max_bytes
    /\ join(<<>>, pieces) = text

\* C19: for a max_bytes that is at least the bytes of the longest character,
\* split_text (both of them) returns pieces that are not empty, have at most max_bytes bytes
\* each and give the text back when put together in order; for a text of
\* more than 6000 bytes baidu_translate calls itself on each such piece of at
\* most 6000 bytes, in order, and returns what these calls returned, put
\* together in the order of the pieces
C19_SplitAndJoin ==
    /\ (prog = "split" /\ s_out # <<>>
            /\ s_in.max_bytes >= LongestChar(s_in.text)) =>
          SplitsInto(s_out[1], s_in.text, s_in.max_bytes)
    /\ prog = "parallel" =>
          \A i \in 1..Len(subtitles) :
              /\ client[i].parts # <<>> =>
                    /\ Utf8Len(client[i].text) > MaxRequestBytes
                    /\ SplitsInto(client[i].parts, client[i].text, MaxRequestBytes)
                    /\ Len(client[i].acc) <= Len(client[i].parts)
                    /\ \A k \in 1..Len(client[i].acc) :
                          client[i].acc[k]
                              \in ProviderValues(client[i].parts[k]) \cup {<<>>}
              /\ (Ended(i) /\ client[i].how = "split") =>
                    /\ Len(client[i].acc) = Len(client[i].parts)
                    /\ client[i].ret = join(<<>>, client[i].acc)
              /\ (Ended(i) /\ client[i].how # "cached"
                      /\ Utf8Len(client[i].text) > MaxRequestBytes) =>
                    client[i].how = "split"

\* a text of 6004 bytes went out as a piece of 6000 bytes and a piece of 4
\* bytes, both were translated, and the call returned the two translations
\* in the order of the pieces
C19_Witness ==
    /\ prog = "parallel"
    /\ \E i \in 1..Len(subtitles) :
          /\ Ended(i) /\ client[i].how = "split"
          /\ Len(client[i].parts) = 2
          /\ Utf8Len(client[i].parts[1]) = MaxRequestBytes
          /\ \A k \in 1..2 : client[i].acc[k] \in ProviderValues(client[i].parts[k])
          /\ client[i].ret = client[i].acc[1] \o client[i].acc[2]

\* split_text has cut a text with characters of several bytes into more than
\* one piece, one of them of exactly max_bytes bytes
C19_SplitWitness ==
    /\ prog = "split" /\ s_out # <<>>
    /\ s_in.max_bytes >= LongestChar(s_in.text)
    /\ Len(s_out[1]) >= 2
    /\ \E k \in 1..Len(s_out[1]) :
          /\ Utf8Len(s_out[1][k]) = s_in.max_bytes
          /\ Len(s_out[1][k]) < s_in.max_bytes

(***************************************************************************)
(* Claims about the backoff delay of baidu_translate (translate_srt.py).   *)
(***************************************************************************)
\* the attempts of a call that have failed: all it has made, but for the one
\* that made it return or raise
FailedAttempts(t) ==
    IF client[t].pc \in {"returned", "raised", "done"}
    THEN client[t].attempt - 1 ELSE client[t].attempt

\* the calls of the rate-limited client that have begun
InCall(t) == client[t].pc \in {"acquire", "request", "returned", "raised", "done"}

\* C21, in every state: the delay of a call is 1 with as many tenths added as
\* attempts of the call have failed, and at most max_delay
C21_DelayOfFailures ==
    prog \in {"batch", "line"} =>
        \A t \in Threads :
            InCall(t) =>
                /\ client[t].delay = Min2(InitialDelay + FailedAttempts(t), max_delay)
                /\ client[t].delay >= InitialDelay /\ client[t].delay <= max_delay

\* C21, in every step: a call that begins has delay 1; the k-th failed attempt
\* of a call, of whatever kind, is followed by a wait of min(k, max_delay) and
\* raises the delay by exactly 1 up to max_delay; nothing else changes a delay
C21_DelayStep ==
    prog \in {"batch", "line"} =>
        \A t \in Threads :
            /\ (InCall(t)' /\ client'[t].attempt = 0 /\ client'[t].taken = 0) =>
                  client'[t].delay = InitialDelay
            /\ (client[t].pc = "request" /\ client'[t].pc = "acquire") =>
                  /\ client[t].delay = Min2(client'[t].attempt, max_delay)
                  /\ client'[t].delay = Min2(client[t].delay + 1, max_delay)
            /\ (InCall(t) /\ InCall(t)' /\ client'[t].attempt = client[t].attempt) =>
                  client'[t].delay = client[t].delay

\* C21: the delay of a call of baidu_translate is 1 before its first failure,
\* grows by exactly 1 with each failed attempt of any kind, never exceeds
\* max_delay, and is 1 again in the next call; the wait before the k-th retry
\* is min(k, max_delay)
C21_AdditiveBackoff == []C21_DelayOfFailures /\ [][C21_DelayStep]_vars

\* the second request of a run is at its eleventh failure: its delay has grown
\* from 1 to max_delay and has stayed there
C21_Witness ==
    /\ prog = "batch" /\ Len(log) >= 1
    /\ client[0].pc = "acquire"
    /\ client[0].attempt = max_delay + 1
    /\ client[0].delay = max_delay

(***************************************************************************)
(* Claims about the output of SRTTranslator.translate_srt_file (DeepL).    *)
(***************************************************************************)
\* the output files written for file f
OutputsOf(f) == SelectSeq(output, LAMBDA r : r.file = f)

\* the text sent for subtitle k of file f
TextOf(f, k) == DeeplTexts(files[f].contents)[k]

RECURSIVE Bilingual(_, _, _)
\* a block content with n translations of its text after it, a line each
Bilingual(content, text, n) ==
    IF n = 0 THEN content
    ELSE Bilingual(content, text, n - 1) \o Delimiter \o Translated(text)

\* the translations that stand after the original content of block k in the
\* written file of f
TimesTranslated(f, k) ==
    (Len(OutputsOf(f)[1].blocks[k]) - Len(files[f].contents[k]))
        \div (Len(Delimiter) + Len(Translated(TextOf(f, k))))

\* C22 as claimed: a file the run is through with is Written or Failed; when
\* Written its output file was written once and every subtitle has received
\* its translation, when Failed (or skipped) no output file was written; no
\* output exists for a file still in translation
C22_WrittenOrFailed ==
    prog = "deepl" =>
        /\ \A k \in 1..Len(output) : output[k].file <= Len(report)
        /\ \A f \in 1..Len(report) :
              /\ report[f] \in {"written", "failed", "skipped"}
              /\ report[f] = "written" =>
                    /\ Len(OutputsOf(f)) = 1
                    /\ Len(OutputsOf(f)[1].blocks) = Total(f)
                    /\ \A k \in 1..Total(f) :
                          /\ TimesTranslated(f, k) >= 1
                          /\ OutputsOf(f)[1].blocks[k] =
                                Bilingual(files[f].contents[k], TextOf(f, k),
                                          TimesTranslated(f, k))
              /\ report[f] # "written" => OutputsOf(f) = <<>>

\* the calls of the fallback for file f were all answered with one entry per
\* text
FallbackComplete(f) ==
    \A k \in 2..Len(RequestsOf(f)) : RequestsOf(f)[k].reply = "ok"

\* C23 as claimed, on the paths where the fallback, if it ran, got one
\* translation for every text: in bilingual mode every block of a written file
\* is the original content followed by one translation of it
C23_OneTranslationPerBlock ==
    (prog = "deepl" /\ bilingual_mode) =>
        \A n \in 1..Len(output) :
            FallbackComplete(output[n].file) =>
                \A k \in 1..Len(output[n].blocks) :
                    output[n].blocks[k] =
                        Bilingual(files[output[n].file].contents[k],
                                  TextOf(output[n].file, k), 1)

(***************************************************************************)
(* Claims about waiting on the token bucket.                               *)
(***************************************************************************)
\* C24: while the replenish thread keeps running and no call fails for ever,
\* every worker that waits in rate_semaphore.acquire() obtains a token and
\* sends its request, and the run reaches its end, where every line has been
\* sent and answered: no worker waits on the bucket for ever
C24_AcquireReturns ==
    /\ \A t \in BucketWorkers :
          (prog = "line" /\ client[t].pc = "acquire")
              ~> (client[t].pc = "request")
    /\ [](mainPc = "done" =>
             \A t \in BucketWorkers : client[t].pc = "done" /\ client[t].attempt >= 1)
    /\ <>(mainPc = "done")

\* a worker waits on the empty bucket for the refill, with its call at its
\* sixth attempt, while the other line is done
C24_Witness ==
    /\ prog = "line" /\ tokens = 0
    /\ \E t, u \in Workers :
          /\ t # u /\ t <= Len(subtitles) /\ u <= Len(subtitles)
          /\ client[t].pc = "acquire" /\ client[t].attempt >= 5
          /\ client[u].pc = "done"

(***************************************************************************)
(* Claims about what SRTTranslator.cache gains.                            *)
(***************************************************************************)
\* value is a translation of the whole text: the first dst of a reply to it,
\* or for a text of more than 6000 bytes a translation of every piece, in order
WholeTranslation(text, value) ==
    IF Utf8Len(text) <= MaxRequestBytes THEN value \in ProviderValues(text)
    ELSE JoinsFrom(value, PartsOf(text), 1, {})

\* C25 as claimed: the cache holds an entry for a text only when the whole
\* text was translated; a text, or a text of more than 6000 bytes one of whose
\* pieces failed after all retries, has no entry, and no call returns a
\* failure from the cache
C25_CachedOnlyOnSuccess ==
    prog = "parallel" =>
        /\ \A text \in DOMAIN cache : WholeTranslation(text, cache[text])
        /\ \A i \in 1..Len(subtitles) :
              (Ended(i) /\ client[i].how = "cached") =>
                  WholeTranslation(client[i].text, client[i].ret)

(***************************************************************************)
(* Claims about the termination of split_text.                             *)
(***************************************************************************)
\* C26 as claimed: for every text and every max_bytes >= 1, either split_text
\* returns, and every piece it returns has at least one character, also where
\* the next character alone has more than max_bytes bytes
C26_SplitTerminates ==
    (prog = "split" /\ s_out # <<>> /\ s_in.max_bytes >= 1) =>
        /\ s_out[1] # Looping
        /\ \A k \in 1..Len(s_out[1]) : s_out[1][k] # <<>>
        /\ join(<<>>, s_out[1]) = s_in.text

====
